---- MODULE Spec2Model ----
(***************************************************************************)
(* SionFlowRT: ahead-of-time compiler from a manifest of tensor graphs to  *)
(* C.  The model follows the live pipeline of src/src/main.rs:             *)
(*   analyzer -> (per program) inliner -> resolver -> linearizer ->        *)
(*   code emitter -> runtime emitter (linker).                             *)
(* Strings with structure are modelled by their parts: an address          *)
(* "head.port" is the pair <<head, port>>, a node id "a/b" is the sequence *)
(* of its "/"-separated segments.                                          *)
(***************************************************************************)
EXTENDS Integers, Sequences, FiniteSets, TLC

VARIABLES
    manifest,     \* Manifest: programs, links, sources (main.rs:29)
    files,        \* graph files on disk: path -> JsonGraph
    pc,           \* position of main(): start, inline, resolve, linearize, emit, link, done, failed
    failedAt,     \* stage whose error aborted main ("" while none)
    plan,         \* ProjectPlan returned by analyze_project
    depGraph,     \* local dep_graph of analyze_project (nodes, edges)
    cur,          \* index into plan.execution_order of the program being compiled
    raw,          \* RawIR of the current program
    resolved,     \* ResolvedIR of the current program
    linear,       \* LinearIR of the current program
    written,      \* files written under generated/
    runtime,      \* context handed to the runtime template by generate_runtime_c
    algebra,      \* a call of the shape algebra: function, arguments, results
    kernel        \* a run of the loop groups emitted by codegen_c.rs: groups, buffers, position

vars == <<manifest, files, pc, failedAt, plan, depGraph, cur, raw, resolved, linear, written, runtime, algebra, kernel>>

----------------------------------------------------------------------------
(* Bounds of the explored inputs *)

MaxProgLinks == 2
MaxGraphLinks == 3
MaxDepth == 3

----------------------------------------------------------------------------
(* Generic helpers *)

Range(s) == {s[i] : i \in 1..Len(s)}

Reverse(s) == [i \in 1..Len(s) |-> s[Len(s) + 1 - i]]

Perms(S) == {p \in [1..Cardinality(S) -> S] : \A a \in S : \E i \in 1..Cardinality(S) : p[i] = a}

IndexOf(s, x) == CHOOSE i \in 1..Len(s) : s[i] = x

RECURSIVE SeqOfSet(_)
SeqOfSet(S) == IF S = {} THEN <<>>
               ELSE LET m == CHOOSE x \in S : \A y \in S : x <= y
                    IN <<m>> \o SeqOfSet(S \ {m})

\* all increasing index sequences over 1..n of length <= k
SubSeqsUpTo(n, k) == {SeqOfSet(S) : S \in {T \in SUBSET (1..n) : Cardinality(T) <= k}}

----------------------------------------------------------------------------
(* petgraph::graph::DiGraph: nodes are indices 1..n in insertion order,     *)
(* edges a sequence in insertion order.  neighbors() and edges_directed()   *)
(* walk a node's edge list newest edge first.                               *)

EmptyGraph == [nodes |-> <<>>, edges |-> <<>>]

AddNode(g, w) == [g EXCEPT !.nodes = Append(@, w)]

AddEdge(g, u, v, w) == [g EXCEPT !.edges = Append(@, [src |-> u, dst |-> v, w |-> w])]

RECURSIVE OutNeighborsFrom(_, _, _)
OutNeighborsFrom(g, nx, i) ==
    IF i = 0 THEN <<>>
    ELSE IF g.edges[i].src = nx
         THEN <<g.edges[i].dst>> \o OutNeighborsFrom(g, nx, i - 1)
         ELSE OutNeighborsFrom(g, nx, i - 1)

\* g.neighbors(nx): targets of the outgoing edges, newest edge first
Neighbors(g, nx) == OutNeighborsFrom(g, nx, Len(g.edges))

RECURSIVE IncomingFrom(_, _, _)
IncomingFrom(g, nx, i) ==
    IF i = 0 THEN <<>>
    ELSE IF g.edges[i].dst = nx
         THEN <<g.edges[i]>> \o IncomingFrom(g, nx, i - 1)
         ELSE IncomingFrom(g, nx, i - 1)

\* g.edges_directed(nx, Incoming): incoming edges, newest edge first
EdgesIncoming(g, nx) == IncomingFrom(g, nx, Len(g.edges))

RECURSIVE PushUnvisited(_, _, _, _)
PushUnvisited(stack, succs, discovered, i) ==
    IF i > Len(succs) THEN stack
    ELSE PushUnvisited(IF succs[i] \in discovered THEN stack ELSE Append(stack, succs[i]),
                       succs, discovered, i + 1)

\* the inner `while let Some(&nx) = dfs.stack.last()` loop of toposort
RECURSIVE TopoVisit(_, _, _, _, _)
TopoVisit(g, stack, discovered, finished, finish) ==
    IF stack = <<>> THEN [ok |-> TRUE, discovered |-> discovered, finished |-> finished, finish |-> finish]
    ELSE LET nx == stack[Len(stack)] IN
         IF nx \notin discovered
         THEN LET succs == Neighbors(g, nx) IN
              IF nx \in Range(succs)
              THEN [ok |-> FALSE, discovered |-> discovered, finished |-> finished, finish |-> finish]
              ELSE TopoVisit(g, PushUnvisited(stack, succs, discovered \cup {nx}, 1),
                             discovered \cup {nx}, finished, finish)
         ELSE TopoVisit(g, SubSeq(stack, 1, Len(stack) - 1), discovered,
                        finished \cup {nx},
                        IF nx \in finished THEN finish ELSE Append(finish, nx))

\* the outer `for i in g.node_identifiers().rev()` loop of toposort
RECURSIVE TopoOuter(_, _, _, _, _)
TopoOuter(g, i, discovered, finished, finish) ==
    IF i = 0 THEN [ok |-> TRUE, finish |-> finish]
    ELSE IF i \in discovered THEN TopoOuter(g, i - 1, discovered, finished, finish)
    ELSE LET r == TopoVisit(g, <<i>>, discovered, finished, finish) IN
         IF ~r.ok THEN [ok |-> FALSE, finish |-> <<>>]
         ELSE TopoOuter(g, i - 1, r.discovered, r.finished, r.finish)

\* second phase of toposort: walking the reversed graph from each node in
\* order must discover nothing but the node itself
RECURSIVE TopoCheck(_, _, _, _)
TopoCheck(g, order, p, discovered) ==
    IF p > Len(order) THEN TRUE
    ELSE LET preds == {e.src : e \in Range(EdgesIncoming(g, order[p]))} IN
         IF order[p] \in discovered THEN TopoCheck(g, order, p + 1, discovered)
         ELSE IF preds \subseteq (discovered \cup {order[p]})
              THEN TopoCheck(g, order, p + 1, discovered \cup {order[p]})
              ELSE FALSE

\* petgraph::algo::toposort(&g, None): Ok(order) or Err(Cycle)
Toposort(g) ==
    LET r == TopoOuter(g, Len(g.nodes), {}, {}, <<>>) IN
    IF ~r.ok THEN [ok |-> FALSE, order |-> <<>>]
    ELSE LET order == Reverse(r.finish) IN
         IF TopoCheck(g, order, 1, {}) THEN [ok |-> TRUE, order |-> order]
         ELSE [ok |-> FALSE, order |-> <<>>]

----------------------------------------------------------------------------
(* core/types.rs: Dim, Shape *)

Static(n) == [t |-> "Static", v |-> n, s |-> ""]

Variable(name) == [t |-> "Variable", v |-> 0, s |-> name]

\* inliner/json.rs JsonDim literals of a graph or manifest file
JValue(n) == [k |-> "Value", v |-> n, s |-> ""]

JSymbol(name) == [k |-> "Symbol", v |-> 0, s |-> name]

\* analyzer::process_json_dim with no manifest parameters: a number stays a
\* number, "_" and "..." become the symbol "dynamic", a name stays a name
process_json_dim(js) ==
    IF js.k = "Value" THEN Static(js.v)
    ELSE IF js.s = "..." \/ js.s = "_" THEN Variable("dynamic")
    ELSE Variable(js.s)

\* analyzer::resolve_source_shape
resolve_source_shape(shape) == [i \in 1..Len(shape) |-> process_json_dim(shape[i])]

----------------------------------------------------------------------------
(* Addresses: "a.b" is <<"a", "b">>, an address without "." is <<"a">> *)

\* addr.split_once('.') succeeds
HasDot(addr) == Len(addr) >= 2

\* addr.strip_prefix("sources.") succeeds
IsSourcesAddr(addr) == HasDot(addr) /\ addr[1] = "sources"

----------------------------------------------------------------------------
(* analyzer::analyze_project *)

NoPlan == [ok |-> FALSE, resources |-> <<>>, programs |-> <<>>, execution_order |-> <<>>,
           links |-> <<>>, workspace_info |-> <<>>]

NoDepGraph == EmptyGraph

\* Phase 1 (lines 49-95): the interface of one program read from its graph file
LoadInterface(g) ==
    [inputs  |-> [n \in {g.inputs[i].name : i \in 1..Len(g.inputs)} |-> <<>>],
     outputs |-> [n \in {g.outputs[i].name : i \in 1..Len(g.outputs)} |->
                    LET p == g.outputs[CHOOSE i \in 1..Len(g.outputs) :
                                 g.outputs[i].name = n /\ \A j \in 1..Len(g.outputs) :
                                     g.outputs[j].name = n => j <= i]
                    IN IF p.shape.some THEN [i \in 1..Len(p.shape.dims) |-> process_json_dim(p.shape.dims[i])]
                       ELSE <<>>]]

ProgIds(m) == {m.programs[i].id : i \in 1..Len(m.programs)}

\* the last definition of an id wins in programs.insert
ProgDef(m, id) == m.programs[CHOOSE i \in 1..Len(m.programs) :
                       m.programs[i].id = id /\ \A j \in 1..Len(m.programs) : m.programs[j].id = id => j <= i]

\* a dependency edge recorded with source and destination swapped
DepEdgeSwapped(g, u, v) == AddEdge(g, v, u, "")

\* dep_graph.add_edge(u, v, ()) (line 140)
DepEdge(g, u, v) == AddEdge(g, u, v, "")

\* Phase 2 (lines 106-145): the loop over manifest.links from link i on.
\* progs: id -> interface, idx: id -> node index, g: dep_graph
RECURSIVE AnalyzeLinks(_, _, _, _, _, _)
AnalyzeLinks(links, i, resources, progs, idx, g) ==
    IF i > Len(links) THEN [ok |-> TRUE, programs |-> progs, graph |-> g]
    ELSE
    LET src == links[i][1]
        dst == links[i][2]
        src_is_resource == IsSourcesAddr(src)
        src_prog == IF src_is_resource THEN src[2] ELSE src[1]
        src_port_name == src[2]
        Fail == [ok |-> FALSE, programs |-> progs, graph |-> g]
    IN
    IF ~HasDot(src) THEN AnalyzeLinks(links, i + 1, resources, progs, idx, g)
    ELSE IF ~HasDot(dst) THEN AnalyzeLinks(links, i + 1, resources, progs, idx, g)
    ELSE IF src_is_resource /\ src_prog \notin DOMAIN resources THEN Fail
    ELSE IF ~src_is_resource /\ src_prog \notin DOMAIN progs THEN Fail
    ELSE IF ~src_is_resource /\ src_port_name \notin DOMAIN progs[src_prog].outputs THEN Fail
    ELSE
    LET src_shape == IF src_is_resource THEN resources[src_prog]
                     ELSE progs[src_prog].outputs[src_port_name]
        dst_prog_id == dst[1]
        dst_port_name == dst[2]
        progs2 == IF dst_prog_id \in DOMAIN progs /\ dst_port_name \in DOMAIN progs[dst_prog_id].inputs
                  THEN [progs EXCEPT ![dst_prog_id].inputs[dst_port_name] = src_shape]
                  ELSE progs
        g2 == IF ~src_is_resource /\ src_prog \in DOMAIN idx /\ dst_prog_id \in DOMAIN idx
                 /\ idx[src_prog] # idx[dst_prog_id]
              THEN DepEdge(g, idx[src_prog], idx[dst_prog_id])
              ELSE g
    IN AnalyzeLinks(links, i + 1, resources, progs2, idx, g2)

\* analyze_project(manifest, base_path); keys is the order in which
\* programs.keys() happens to iterate the HashMap (line 102)
analyze_project(m, fs, keys) ==
    IF \E i \in 1..Len(m.programs) : m.programs[i].path \notin DOMAIN fs
    THEN [plan |-> NoPlan, dep |-> NoDepGraph]
    ELSE
    LET resources == [r \in DOMAIN m.sources |-> resolve_source_shape(m.sources[r])]
        progs == [id \in ProgIds(m) |-> LoadInterface(fs[ProgDef(m, id).path])]
        idx == [id \in ProgIds(m) |-> IndexOf(keys, id)]
        g0 == [nodes |-> keys, edges |-> <<>>]
        r == AnalyzeLinks(m.links, 1, resources, progs, idx, g0)
    IN
    IF ~r.ok THEN [plan |-> NoPlan, dep |-> r.graph]
    ELSE
    LET t == Toposort(r.graph) IN
    IF ~t.ok THEN [plan |-> NoPlan, dep |-> r.graph]
    ELSE [plan |-> [ok |-> TRUE, resources |-> resources, programs |-> r.programs,
                    execution_order |-> [k \in 1..Len(t.order) |-> r.graph.nodes[t.order[k]]],
                    links |-> m.links,
                    workspace_info |-> <<>>],
          dep |-> r.graph]

----------------------------------------------------------------------------
(* core/op.rs: Op.  One record shape for all variants; unused fields are    *)
(* empty.                                                                   *)

MkOp(tag, name, axis, parts, dims, perm, nvalues) ==
    [tag |-> tag, name |-> name, axis |-> axis, parts |-> parts, dims |-> dims,
     perm |-> perm, nvalues |-> nvalues]

OpUnary(tag) == MkOp(tag, "", 0, 0, <<>>, <<>>, 0)

OpBinary(tag) == MkOp(tag, "", 0, 0, <<>>, <<>>, 0)

OpInput(name) == MkOp("Input", name, 0, 0, <<>>, <<>>, 0)

OpOutput(name) == MkOp("Output", name, 0, 0, <<>>, <<>>, 0)

OpConstant(n) == MkOp("Constant", "", 0, 0, <<>>, <<>>, n)

OpSplit(axis, parts) == MkOp("Split", "", axis, parts, <<>>, <<>>, 0)

OpReshape(dims) == MkOp("Reshape", "", 0, 0, dims, <<>>, 0)

OpTranspose(perm) == MkOp("Transpose", "", 0, 0, <<>>, perm, 0)

OpReduceSum(axis) == MkOp("ReduceSum", "", axis, 0, <<>>, <<>>, 0)

OpMatMul == MkOp("MatMul", "", 0, 0, <<>>, <<>>, 0)

UnaryTags == {"Sin", "Abs", "Sqrt", "Square", "Exp", "Log"}

BinaryTags == {"Add", "Sub", "Mul", "Div", "Min", "Max", "Pow"}

\* lexicographic (byte) order of the strings the compiler sorts or compares
StrOrder == <<"", "0", "1", "N", "P", "Q", "R", "_", "a", "b", "dynamic", "i", "in", "in2",
              "input", "n", "o", "out", "output", "s", "x", "y", "z">>

StrLess(a, b) == IndexOf(StrOrder, a) < IndexOf(StrOrder, b)

\* slice::sort_by on a key: a stable sort of records [k |-> rank, v |-> item]
RECURSIVE InsertSorted(_, _)
InsertSorted(sorted, x) ==
    IF sorted = <<>> THEN <<x>>
    ELSE IF x.k < sorted[1].k THEN <<x>> \o sorted
    ELSE <<sorted[1]>> \o InsertSorted(Tail(sorted), x)

RECURSIVE StableSort(_)
StableSort(s) ==
    IF s = <<>> THEN <<>>
    ELSE InsertSorted(StableSort(SubSeq(s, 1, Len(s) - 1)), s[Len(s)])

\* the items of s in stable order of their string keys (keys[i] is the key of s[i])
SortByStr(s, keys) ==
    LET t == StableSort([i \in 1..Len(s) |-> [k |-> IndexOf(StrOrder, keys[i]), v |-> s[i]]])
    IN [i \in 1..Len(t) |-> t[i].v]

----------------------------------------------------------------------------
(* inliner/mod.rs.  A JsonGraph is                                          *)
(*   [inputs: Seq(port), outputs: Seq(port), nodes: Seq(node), links]       *)
(* a node is [id, kind ("op" | "sub"), op, subgraph]; its id is the         *)
(* sequence of the "/"-separated segments of the id string; a link address  *)
(* is <<head, port>> with head the segments before the first ".".           *)

JPort(name) == [name |-> name, shape |-> [some |-> FALSE, dims |-> <<>>]]

JPortShaped(name, dims) == [name |-> name, shape |-> [some |-> TRUE, dims |-> dims]]

PrimNode(id, op) == [id |-> id, kind |-> "op", op |-> op, subgraph |-> ""]

SubNode(id, path) == [id |-> id, kind |-> "sub", op |-> OpUnary(""), subgraph |-> path]

NoMapping == [inputs |-> <<>>, outputs |-> <<>>]

EmptyRaw == [graph |-> EmptyGraph, inputs |-> <<>>, outputs |-> <<>>]

\* format!("{}/{}", prefix, id), or id alone under the empty prefix (line 88)
FullId(prefix, id) == IF prefix = <<>> THEN id ELSE prefix \o id

\* resolve_source (lines 169-188)
resolve_source(addr, nodes, subgraphs) ==
    IF HasDot(addr) /\ addr[1] = <<"inputs">> THEN [ok |-> TRUE, v |-> <<>>]
    ELSE IF ~HasDot(addr) THEN [ok |-> FALSE, v |-> <<>>]
    ELSE IF addr[1] \in DOMAIN nodes THEN [ok |-> TRUE, v |-> <<[node |-> nodes[addr[1]], port |-> addr[2]]>>]
    ELSE IF addr[1] \in DOMAIN subgraphs /\ addr[2] \in DOMAIN subgraphs[addr[1]].outputs
         THEN [ok |-> TRUE, v |-> <<subgraphs[addr[1]].outputs[addr[2]]>>]
    ELSE [ok |-> FALSE, v |-> <<>>]

\* a destination that keeps only the first consumer of a sub-graph input
resolve_destination_first(addr, nodes, subgraphs) ==
    IF HasDot(addr) /\ addr[1] = <<"outputs">> THEN [ok |-> TRUE, v |-> <<>>]
    ELSE IF ~HasDot(addr) THEN [ok |-> FALSE, v |-> <<>>]
    ELSE IF addr[1] \in DOMAIN nodes THEN [ok |-> TRUE, v |-> <<[node |-> nodes[addr[1]], port |-> addr[2]]>>]
    ELSE IF addr[1] \in DOMAIN subgraphs /\ addr[2] \in DOMAIN subgraphs[addr[1]].inputs
         THEN [ok |-> TRUE, v |-> SubSeq(subgraphs[addr[1]].inputs[addr[2]], 1, 1)]
    ELSE [ok |-> FALSE, v |-> <<>>]

\* resolve_destination (lines 190-209)
resolve_destination(addr, nodes, subgraphs) ==
    IF HasDot(addr) /\ addr[1] = <<"outputs">> THEN [ok |-> TRUE, v |-> <<>>]
    ELSE IF ~HasDot(addr) THEN [ok |-> FALSE, v |-> <<>>]
    ELSE IF addr[1] \in DOMAIN nodes THEN [ok |-> TRUE, v |-> <<[node |-> nodes[addr[1]], port |-> addr[2]]>>]
    ELSE IF addr[1] \in DOMAIN subgraphs /\ addr[2] \in DOMAIN subgraphs[addr[1]].inputs
         THEN [ok |-> TRUE, v |-> subgraphs[addr[1]].inputs[addr[2]]]
    ELSE [ok |-> FALSE, v |-> <<>>]

\* update_interface_mapping (lines 211-226)
update_interface_mapping(src_addr, dst_addr, sources, destinations, mapping) ==
    LET m1 == IF src_addr[1] = <<"inputs">>
              THEN [mapping EXCEPT !.inputs =
                       (src_addr[2] :> ((IF src_addr[2] \in DOMAIN mapping.inputs
                                         THEN mapping.inputs[src_addr[2]] ELSE <<>>) \o destinations)) @@ @]
              ELSE mapping
    IN IF dst_addr[1] = <<"outputs">> /\ sources # <<>>
       THEN [m1 EXCEPT !.outputs = (dst_addr[2] :> sources[1]) @@ @]
       ELSE m1

\* the edges of one link: for every source, for every destination (lines 123-130)
RECURSIVE AddLinkEdges(_, _, _, _, _)
AddLinkEdges(g, sources, destinations, i, j) ==
    IF i > Len(sources) THEN g
    ELSE IF j > Len(destinations) THEN AddLinkEdges(g, sources, destinations, i + 1, 1)
    ELSE AddLinkEdges(AddEdge(g, sources[i].node, destinations[j].node,
                              [src_port |-> sources[i].port, dst_port |-> destinations[j].port]),
                      sources, destinations, i, j + 1)

\* the loop over graph_def.links (lines 119-133)
RECURSIVE InlineLinks(_, _, _, _, _, _)
InlineLinks(links, i, prims, subs, g, mapping) ==
    IF i > Len(links) THEN [status |-> "ok", graph |-> g, mapping |-> mapping]
    ELSE
    LET sources == resolve_source(links[i][1], prims, subs)
        destinations == resolve_destination(links[i][2], prims, subs)
    IN IF ~sources.ok \/ ~destinations.ok
       THEN [status |-> "err", graph |-> g, mapping |-> NoMapping]
       ELSE InlineLinks(links, i + 1, prims, subs,
                        AddLinkEdges(g, sources.v, destinations.v, 1, 1),
                        update_interface_mapping(links[i][1], links[i][2], sources.v, destinations.v, mapping))

RECURSIVE inline_recursive_graph(_, _, _, _, _)
RECURSIVE InlineNodes(_, _, _, _, _, _, _, _)

\* inline_recursive (lines 58-69): read the file, then inline it; depth is
\* the number of inline_recursive frames on the call stack
inline_recursive(fs, path, prefix, g, depth) ==
    IF depth > MaxDepth THEN [status |-> "overflow", graph |-> g, mapping |-> NoMapping]
    ELSE IF path \notin DOMAIN fs THEN [status |-> "err", graph |-> g, mapping |-> NoMapping]
    ELSE inline_recursive_graph(fs, fs[path], prefix, g, depth)

\* the loop over graph_def.nodes (lines 87-115)
InlineNodes(fs, gdef, prefix, g, depth, i, prims, subs) ==
    IF i > Len(gdef.nodes) THEN [status |-> "ok", graph |-> g, prims |-> prims, subs |-> subs]
    ELSE
    LET node_def == gdef.nodes[i]
        full_id == FullId(prefix, node_def.id)
    IN IF node_def.kind = "sub"
       THEN LET r == inline_recursive(fs, node_def.subgraph, full_id, g, depth + 1) IN
            IF r.status # "ok" THEN [status |-> r.status, graph |-> r.graph, prims |-> prims, subs |-> subs]
            ELSE InlineNodes(fs, gdef, prefix, r.graph, depth, i + 1, prims,
                             (node_def.id :> r.mapping) @@ subs)
       ELSE InlineNodes(fs, gdef, prefix, AddNode(g, [id |-> full_id, op |-> node_def.op]),
                        depth, i + 1, (node_def.id :> (Len(g.nodes) + 1)) @@ prims, subs)

\* inline_recursive_graph (lines 71-136), without the copy of the root's
\* inputs and outputs, which load_and_inline's model does
inline_recursive_graph(fs, gdef, prefix, g, depth) ==
    LET n == InlineNodes(fs, gdef, prefix, g, depth, 1, <<>>, <<>>) IN
    IF n.status # "ok" THEN [status |-> n.status, graph |-> n.graph, mapping |-> NoMapping]
    ELSE InlineLinks(gdef.links, 1, n.prims, n.subs, n.graph, NoMapping)

\* bridge of the top-level inputs (lines 30-41), in the order ins in which
\* the HashMap mapping.inputs is iterated
RECURSIVE BridgeInputs(_, _, _, _)
BridgeInputs(g, mapping, ins, i) ==
    IF i > Len(ins) THEN g
    ELSE LET g1 == AddNode(g, [id |-> <<"inputs." \o ins[i]>>, op |-> OpInput(ins[i])])
             u == Len(g1.nodes)
             cons == mapping.inputs[ins[i]]
             RECURSIVE AddCons(_, _)
             AddCons(h, j) == IF j > Len(cons) THEN h
                              ELSE AddCons(AddEdge(h, u, cons[j].node,
                                                   [src_port |-> "output", dst_port |-> cons[j].port]), j + 1)
         IN BridgeInputs(AddCons(g1, 1), mapping, ins, i + 1)

\* bridge of the top-level outputs (lines 44-53), in HashMap order outs
RECURSIVE BridgeOutputs(_, _, _, _)
BridgeOutputs(g, mapping, outs, i) ==
    IF i > Len(outs) THEN g
    ELSE LET g1 == AddNode(g, [id |-> <<"outputs." \o outs[i]>>, op |-> OpOutput(outs[i])])
             src == mapping.outputs[outs[i]]
         IN BridgeOutputs(AddEdge(g1, src.node, Len(g1.nodes),
                                  [src_port |-> src.port, dst_port |-> "input"]),
                          mapping, outs, i + 1)

\* load_and_inline (lines 20-56) after the recursive inlining returned r
Bridge(root_graph, r, ins, outs) ==
    [graph |-> BridgeOutputs(BridgeInputs(r.graph, r.mapping, ins, 1), r.mapping, outs, 1),
     inputs |-> root_graph.inputs,
     outputs |-> root_graph.outputs]

----------------------------------------------------------------------------
(* resolver/mod.rs *)

ShapeErr == [ok |-> FALSE, dims |-> <<>>]

ShapeOk(dims) == [ok |-> TRUE, dims |-> dims]

\* an aligned pair where a 1 on the left is kept instead of stretched
BroadcastDimKeepLeft(da, db) ==
    IF da.t = "Static" /\ db.t = "Static"
    THEN IF da.v = db.v \/ da.v = 1 THEN ShapeOk(<<Static(da.v)>>)
         ELSE IF db.v = 1 THEN ShapeOk(<<Static(da.v)>>)
         ELSE ShapeErr
    ELSE IF da.t = "Variable" THEN ShapeOk(<<Variable(da.s)>>)
    ELSE ShapeOk(<<Variable(db.s)>>)

\* one aligned pair of broadcast_shapes (lines 231-240)
BroadcastDim(da, db) ==
    IF da.t = "Static" /\ db.t = "Static"
    THEN IF da.v = db.v THEN ShapeOk(<<Static(da.v)>>)
         ELSE IF da.v = 1 THEN ShapeOk(<<Static(db.v)>>)
         ELSE IF db.v = 1 THEN ShapeOk(<<Static(da.v)>>)
         ELSE ShapeErr
    ELSE IF da.t = "Variable" THEN ShapeOk(<<Variable(da.s)>>)
    ELSE ShapeOk(<<Variable(db.s)>>)

\* broadcast_shapes (lines 221-243)
broadcast_shapes(a, b) ==
    LET len_a == Len(a)
        len_b == Len(b)
        max_len == IF len_a > len_b THEN len_a ELSE len_b
        dim_a(i) == IF i <= max_len - len_a THEN Static(1) ELSE a[i - (max_len - len_a)]
        dim_b(i) == IF i <= max_len - len_b THEN Static(1) ELSE b[i - (max_len - len_b)]
    IN IF \E i \in 1..max_len : ~BroadcastDim(dim_a(i), dim_b(i)).ok THEN ShapeErr
       ELSE ShapeOk([i \in 1..max_len |-> BroadcastDim(dim_a(i), dim_b(i)).dims[1]])

RemoveAt(s, i) == SubSeq(s, 1, i - 1) \o SubSeq(s, i + 1, Len(s))

\* infer_shape (lines 107-219); axes and permutation entries are 0-based as
\* in the source, input_specs maps an input name to its shape
infer_shape(op, inputs, input_specs) ==
    CASE op.tag = "Input" ->
            IF op.name \in DOMAIN input_specs THEN ShapeOk(input_specs[op.name]) ELSE ShapeErr
      [] op.tag = "Constant" -> ShapeOk(<<Static(op.nvalues)>>)
      [] op.tag \in BinaryTags ->
            IF Len(inputs) = 2 THEN broadcast_shapes(inputs[1], inputs[2])
            ELSE IF Len(inputs) = 1 THEN ShapeOk(inputs[1])
            ELSE ShapeErr
      [] op.tag \in UnaryTags \cup {"Output"} ->
            IF inputs = <<>> THEN ShapeErr ELSE ShapeOk(inputs[1])
      [] op.tag = "Reshape" -> ShapeOk(op.dims)
      [] op.tag = "Transpose" ->
            IF inputs = <<>> THEN ShapeErr
            ELSE IF Len(inputs[1]) # Len(op.perm) THEN ShapeErr
            ELSE IF \E i \in 1..Len(op.perm) : op.perm[i] >= Len(inputs[1]) THEN ShapeErr
            ELSE ShapeOk([i \in 1..Len(op.perm) |-> inputs[1][op.perm[i] + 1]])
      [] op.tag = "ReduceSum" ->
            IF inputs = <<>> THEN ShapeErr
            ELSE IF op.axis >= Len(inputs[1]) THEN ShapeErr
            ELSE ShapeOk(RemoveAt(inputs[1], op.axis + 1))
      [] op.tag = "Split" ->
            IF inputs = <<>> THEN ShapeErr
            ELSE IF op.axis >= Len(inputs[1]) THEN ShapeErr
            ELSE LET d == inputs[1][op.axis + 1] IN
                 IF d.t = "Static"
                 THEN IF d.v % op.parts # 0 THEN ShapeErr
                      ELSE ShapeOk([inputs[1] EXCEPT ![op.axis + 1] = Static(d.v \div op.parts)])
                 ELSE ShapeOk([inputs[1] EXCEPT ![op.axis + 1] =
                                  Variable("(" \o d.s \o " / " \o ToString(op.parts) \o ")")])
      [] op.tag = "MatMul" ->
            IF Len(inputs) # 2 THEN ShapeErr
            ELSE LET a == inputs[1]
                     b == inputs[2]
                 IN IF Len(a) < 2 \/ Len(b) < 2 THEN ShapeErr
                    ELSE LET m == a[Len(a) - 1]
                             k_a == a[Len(a)]
                             k_b == b[Len(b) - 1]
                             n == b[Len(b)]
                             batch == broadcast_shapes(SubSeq(a, 1, Len(a) - 2), SubSeq(b, 1, Len(b) - 2))
                         IN IF k_a.t = "Static" /\ k_b.t = "Static" /\ k_a.v # k_b.v THEN ShapeErr
                            ELSE IF ~batch.ok THEN ShapeErr
                            ELSE ShapeOk(batch.dims \o <<m, n>>)
      [] OTHER -> ShapeErr

NoResolved == [ok |-> FALSE, graph |-> EmptyGraph, inputs |-> <<>>, outputs |-> <<>>]

\* incoming edges of a node in the order the resolver and the linearizer
\* consume them: sort_by dst_port over edges_directed(.., Incoming)
SortedIncoming(g, idx) ==
    LET inc == EdgesIncoming(g, idx)
    IN SortByStr(inc, [i \in 1..Len(inc) |-> inc[i].w.dst_port])

\* the loop over the topological order (lines 24-54): nodes of order[p..]
\* are added to the resolved graph; new index of order[q] is q
RECURSIVE ResolveNodes(_, _, _, _, _)
ResolveNodes(rawg, order, p, input_specs, nodes) ==
    IF p > Len(order) THEN [ok |-> TRUE, nodes |-> nodes]
    ELSE
    LET old_idx == order[p]
        raw_node == rawg.nodes[old_idx]
        incoming_edges == SortedIncoming(rawg, old_idx)
        new_of(old) == IndexOf(order, old)
        mapped(e) == \E q \in 1..(p - 1) : order[q] = e.src
    IN IF \E i \in 1..Len(incoming_edges) : ~mapped(incoming_edges[i])
       THEN [ok |-> FALSE, nodes |-> nodes]
       ELSE LET input_shapes == [i \in 1..Len(incoming_edges) |-> nodes[new_of(incoming_edges[i].src)].shape]
                sh == infer_shape(raw_node.op, input_shapes, input_specs)
            IN IF ~sh.ok THEN [ok |-> FALSE, nodes |-> nodes]
               ELSE ResolveNodes(rawg, order, p + 1, input_specs,
                                 Append(nodes, [id |-> raw_node.id, op |-> raw_node.op, shape |-> sh.dims]))

\* the copy of the edges onto the new indices (lines 56-64): the new index
\* of old node order[q] is q
ResolvedGraph(rawg, order, nodes) ==
    [nodes |-> nodes,
     edges |-> [i \in 1..Len(rawg.edges) |->
                  [src |-> IndexOf(order, rawg.edges[i].src),
                   dst |-> IndexOf(order, rawg.edges[i].dst),
                   w |-> rawg.edges[i].w]]]

\* the Output nodes in the order of their port names (lines 68-77)
OutputNodes(g) ==
    LET all_out == SelectSeq([i \in 1..Len(g.nodes) |-> i], LAMBDA i : g.nodes[i].op.tag = "Output")
    IN SortByStr(all_out, [i \in 1..Len(all_out) |-> g.nodes[all_out[i]].op.name])

\* one port per Output node that has an incoming edge, shaped like the
\* source of the first edge edges_directed yields (lines 79-92)
ResolvedOutputs(g, out_nodes) ==
    LET with_edge == SelectSeq(out_nodes, LAMBDA i : EdgesIncoming(g, i) # <<>>)
    IN [i \in 1..Len(with_edge) |->
          [name |-> g.nodes[with_edge[i]].op.name,
           shape |-> g.nodes[EdgesIncoming(g, with_edge[i])[1].src].shape]]

\* the ResolvedIR returned on success (lines 94-104)
ResolvedOf(rawir, input_specs, g) ==
    [ok |-> TRUE,
     graph |-> g,
     inputs |-> [i \in 1..Len(rawir.inputs) |->
                   [name |-> rawir.inputs[i].name,
                    shape |-> IF rawir.inputs[i].name \in DOMAIN input_specs
                              THEN input_specs[rawir.inputs[i].name] ELSE <<>>]],
     outputs |-> ResolvedOutputs(g, OutputNodes(g))]

\* resolve_module after toposort returned order (lines 24-105)
ResolveOrdered(rawir, input_specs, order) ==
    LET r == ResolveNodes(rawir.graph, order, 1, input_specs, <<>>) IN
    IF ~r.ok THEN NoResolved
    ELSE ResolvedOf(rawir, input_specs, ResolvedGraph(rawir.graph, order, r.nodes))

\* resolve_module (lines 13-105)
resolve_module(rawir, input_specs) ==
    LET t == Toposort(rawir.graph) IN
    IF ~t.ok THEN NoResolved
    ELSE ResolveOrdered(rawir, input_specs, t.order)

----------------------------------------------------------------------------
(* linearizer/mod.rs, linearizer/ir.rs *)

NoLinear == [ok |-> FALSE, nodes |-> <<>>, inputs |-> <<>>, outputs |-> <<>>]

\* a Split advancing the counter by one slot like any other node
OffsetStepOneSlot(op) ==
    IF op.tag \in {"Input", "Output"} THEN 0 ELSE 1

\* how far one node advances current_offset (lines 32-47)
OffsetStep(op) ==
    IF op.tag \in {"Input", "Output"} THEN 0
    ELSE IF op.tag = "Split" THEN op.parts
    ELSE 1

\* the loop over the topological order (lines 15-57)
RECURSIVE LinearizeNodes(_, _, _, _, _)
LinearizeNodes(g, order, p, current_offset, nodes) ==
    IF p > Len(order) THEN nodes
    ELSE
    LET idx == order[p]
        node == g.nodes[idx]
        incoming == SortedIncoming(g, idx)
        inputs == [i \in 1..Len(incoming) |->
                     [node_id |-> g.nodes[incoming[i].src].id,
                      src_port |-> incoming[i].w.src_port,
                      shape |-> g.nodes[incoming[i].src].shape]]
        offset == IF node.op.tag = "Input" THEN 0 ELSE current_offset
    IN LinearizeNodes(g, order, p + 1, current_offset + OffsetStep(node.op),
                      Append(nodes, [id |-> node.id, op |-> node.op, inputs |-> inputs,
                                     shape |-> node.shape, offset |-> offset]))

\* the topological order walked back to front
LinearOrderReversed(order) == Reverse(order)

\* `for idx in order` (line 15): the nodes are emitted in toposort's order
LinearOrder(order) == order

\* linearize (lines 8-64)
linearize(res) ==
    LET t == Toposort(res.graph) IN
    IF ~t.ok THEN NoLinear
    ELSE [ok |-> TRUE,
          nodes |-> LinearizeNodes(res.graph, LinearOrder(t.order), 1, 0, <<>>),
          inputs |-> res.inputs,
          outputs |-> res.outputs]

\* LinearIR::get_workspace_slots (ir.rs lines 30-37): one slot per node that
\* is neither Input nor Output
get_workspace_slots(lin) ==
    LET kept == SelectSeq(lin.nodes, LAMBDA n : n.op.tag \notin {"Input", "Output"})
    IN [i \in 1..Len(kept) |-> kept[i].shape]

----------------------------------------------------------------------------
(* codegen/mod.rs, linker/mod.rs *)

\* the characters of the strings node ids are made of
Chars(str) ==
    CASE str = "a" -> <<"a">>
      [] str = "n" -> <<"n">>
      [] str = "s" -> <<"s">>
      [] str = "s_n" -> <<"s", "_", "n">>
      [] str = "P" -> <<"P">>
      [] str = "Q" -> <<"Q">>
      [] str = "R" -> <<"R">>
      [] str = "in" -> <<"i", "n">>
      [] str = "out" -> <<"o", "u", "t">>
      [] str = "sources" -> <<"s", "o", "u", "r", "c", "e", "s">>
      [] str = "x" -> <<"x">>
      [] str = "y" -> <<"y">>
      [] str = "o" -> <<"o">>
      [] str = "t" -> <<"t">>
      [] str = "inputs.x" -> <<"i", "n", "p", "u", "t", "s", ".", "x">>
      [] str = "inputs.in" -> <<"i", "n", "p", "u", "t", "s", ".", "i", "n">>
      [] str = "outputs.y" -> <<"o", "u", "t", "p", "u", "t", "s", ".", "y">>
      [] str = "outputs.out" -> <<"o", "u", "t", "p", "u", "t", "s", ".", "o", "u", "t">>

\* the characters of a node id: its segments joined by "/"
RECURSIVE IdChars(_)
IdChars(id) ==
    IF Len(id) = 1 THEN Chars(id[1])
    ELSE Chars(id[1]) \o <<"/">> \o IdChars(Tail(id))

\* core::utils::sanitize_id: every "/" and "." becomes "_"
sanitize_id(chars) ==
    [i \in 1..Len(chars) |-> IF chars[i] \in {"/", "."} THEN "_" ELSE chars[i]]

\* the indexing node.inputs[0] / node.inputs[1] of emit_node_code panics
\* when the node has fewer inputs (codegen/mod.rs lines 98, 106-107, 142,
\* 169, 177, 200-201, 224, 233)
CodegenPanics(lin) ==
    \E i \in 1..Len(lin.nodes) :
        LET n == lin.nodes[i] IN
        \/ n.op.tag \in BinaryTags \cup {"MatMul"} /\ Len(n.inputs) < 2
        \/ n.op.tag \in UnaryTags \cup {"Output", "Reshape", "ReduceSum", "Split", "Transpose"}
           /\ Len(n.inputs) < 1

RECURSIVE SortedStrs(_)
SortedStrs(S) ==
    IF S = {} THEN <<>>
    ELSE LET m == CHOOSE x \in S : \A y \in S : ~StrLess(y, x)
         IN <<m>> \o SortedStrs(S \ {m})

NoRuntime == [programs |-> <<>>, sync_back |-> <<>>]

\* the indexing plan.resources[res_id] of the sync-back loop panics for a
\* resource the manifest does not declare (linker/mod.rs line 174)
LinkerPanics(pl) ==
    \E i \in 1..Len(pl.links) :
        LET src == pl.links[i][1]
            dst == pl.links[i][2]
        IN IsSourcesAddr(dst) /\ HasDot(src) /\ src[1] # "sources" /\ dst[2] \notin DOMAIN pl.resources

\* a sync-back step that does not look at the prefix of the source address
SyncBackEntryAnySource(src_addr, dst_addr) ==
    IF IsSourcesAddr(dst_addr) /\ HasDot(src_addr)
    THEN <<[res_id |-> sanitize_id(Chars(dst_addr[2])),
            src_prog |-> sanitize_id(Chars(src_addr[1])),
            src_port |-> sanitize_id(Chars(src_addr[2]))]>>
    ELSE <<>>

\* one pass of the sync-back loop (linker/mod.rs lines 171-184): the entry
\* pushed for the link, if any
SyncBackEntry(src_addr, dst_addr) ==
    IF IsSourcesAddr(dst_addr) /\ HasDot(src_addr) /\ src_addr[1] # "sources"
    THEN <<[res_id |-> sanitize_id(Chars(dst_addr[2])),
            src_prog |-> sanitize_id(Chars(src_addr[1])),
            src_port |-> sanitize_id(Chars(src_addr[2]))]>>
    ELSE <<>>

\* the sync-back loop over plan.links from link i on (lines 169-186)
RECURSIVE SyncBack(_, _)
SyncBack(links, i) ==
    IF i > Len(links) THEN <<>>
    ELSE SyncBackEntry(links[i][1], links[i][2]) \o SyncBack(links, i + 1)

NullArg == [kind |-> "NULL", a |-> <<>>, b |-> <<>>]

\* resource_<id> and buf_<program>_<port>
ResourceArg(res_id) == [kind |-> "resource", a |-> sanitize_id(Chars(res_id)), b |-> <<>>]

BufArg(prog, port) == [kind |-> "buf", a |-> sanitize_id(Chars(prog)), b |-> sanitize_id(Chars(port))]

\* the argument pushed for the input `name`: the source of the first link,
\* from link i on, that ends in <prog_id>.<name> (linker/mod.rs lines 125-139)
RECURSIVE CallArgInput(_, _, _, _)
CallArgInput(links, prog_id, name, i) ==
    IF i > Len(links) THEN <<NullArg>>
    ELSE IF links[i][2] = <<prog_id, name>>
         THEN IF IsSourcesAddr(links[i][1]) THEN <<ResourceArg(links[i][1][2])>>
              ELSE IF HasDot(links[i][1]) THEN <<BufArg(links[i][1][1], links[i][1][2])>>
              ELSE <<>>
    ELSE CallArgInput(links, prog_id, name, i + 1)

\* the arguments of the inputs from the k-th sorted name on (lines 122-140)
RECURSIVE CallArgsInputs(_, _, _, _)
CallArgsInputs(links, prog_id, in_names, k) ==
    IF k > Len(in_names) THEN <<>>
    ELSE CallArgInput(links, prog_id, in_names[k], 1) \o CallArgsInputs(links, prog_id, in_names, k + 1)

\* call_args (linker/mod.rs lines 122-145): the inputs in sorted name order,
\* then the outputs in sorted name order
call_args(pl, prog_id) ==
    CallArgsInputs(pl.links, prog_id, SortedStrs(DOMAIN pl.programs[prog_id].inputs), 1)
    \o [k \in 1..Cardinality(DOMAIN pl.programs[prog_id].outputs) |->
           BufArg(prog_id, SortedStrs(DOMAIN pl.programs[prog_id].outputs)[k])]

\* get_function_args (codegen/mod.rs lines 60-78) after `void** workspace`:
\* in_<name> for ir.inputs in order, then out_<name> for ir.outputs in order
get_function_args(ir) ==
    [inputs |-> [k \in 1..Len(ir.inputs) |-> sanitize_id(Chars(ir.inputs[k].name))],
     outputs |-> [k \in 1..Len(ir.outputs) |-> sanitize_id(Chars(ir.outputs[k].name))]]

\* generate_runtime_c (linker/mod.rs lines 98-157 and 168-186): the programs
\* handed to the template, in execution order, and the copy-back list
generate_runtime_c(pl) ==
    [sync_back |-> SyncBack(pl.links, 1),
     programs |-> [k \in 1..Len(pl.execution_order) |->
        LET prog_id == pl.execution_order[k]
            interface == pl.programs[prog_id]
        IN [id |-> prog_id,
            inputs |-> SortedStrs(DOMAIN interface.inputs),
            outputs |-> SortedStrs(DOMAIN interface.outputs),
            call_args |-> call_args(pl, prog_id),
            workspace_size |-> IF prog_id \in DOMAIN pl.workspace_info
                               THEN Len(pl.workspace_info[prog_id]) ELSE 0]]]

----------------------------------------------------------------------------
(* main.rs: the driver *)

CurProg == plan.execution_order[cur]

CurGraph == files[ProgDef(manifest, CurProg).path]

Fail(stage) == /\ pc' = "failed"
               /\ failedAt' = stage

\* step 2 (line 34): analyze_project
Analyze ==
    /\ pc = "start"
    /\ \E keys \in Perms(ProgIds(manifest)) :
         LET r == analyze_project(manifest, files, keys) IN
         /\ plan' = r.plan
         /\ depGraph' = r.dep
         /\ IF r.plan.ok
            THEN /\ pc' = IF r.plan.execution_order = <<>> THEN "link" ELSE "inline"
                 /\ failedAt' = failedAt
            ELSE Fail("analyze")
    /\ UNCHANGED <<kernel, algebra, manifest, files, cur, raw, resolved, linear, written, runtime>>

\* step 3 (line 50): load_and_inline of the current program
Inline ==
    /\ pc = "inline"
    /\ LET r == inline_recursive_graph(files, CurGraph, <<>>, EmptyGraph, 0) IN
       IF r.status = "ok"
       THEN \E ins \in Perms(DOMAIN r.mapping.inputs), outs \in Perms(DOMAIN r.mapping.outputs) :
              /\ raw' = Bridge(CurGraph, r, ins, outs)
              /\ pc' = "resolve"
              /\ failedAt' = failedAt
       ELSE /\ raw' = EmptyRaw
            /\ Fail(IF r.status = "overflow" THEN "inline-overflow" ELSE "inline")
    /\ resolved' = NoResolved
    /\ linear' = NoLinear
    /\ UNCHANGED <<kernel, algebra, manifest, files, plan, depGraph, cur, written, runtime>>

\* the driver going on to linearize whatever resolve_module returned
ResolveUnchecked ==
    /\ pc = "resolve"
    /\ resolved' = [resolve_module(raw, plan.programs[CurProg].inputs) EXCEPT !.ok = TRUE]
    /\ pc' = "linearize"
    /\ UNCHANGED <<kernel, algebra, manifest, files, plan, depGraph, cur, raw, linear, written, runtime, failedAt>>

\* line 53: resolve_module with the interface inputs of the program
Resolve ==
    /\ pc = "resolve"
    /\ LET r == resolve_module(raw, plan.programs[CurProg].inputs) IN
       /\ resolved' = r
       /\ IF r.ok THEN pc' = "linearize" /\ failedAt' = failedAt ELSE Fail("resolve")
    /\ UNCHANGED <<kernel, algebra, manifest, files, plan, depGraph, cur, raw, linear, written, runtime>>

\* line 56: linearize
Linearize ==
    /\ pc = "linearize"
    /\ LET r == linearize(resolved) IN
       /\ linear' = r
       /\ IF r.ok THEN pc' = "emit" /\ failedAt' = failedAt ELSE Fail("linearize")
    /\ UNCHANGED <<kernel, algebra, manifest, files, plan, depGraph, cur, raw, resolved, written, runtime>>

\* lines 59-67: record the workspace slots, emit and write <prog>.c/.h
Emit ==
    /\ pc = "emit"
    /\ plan' = [plan EXCEPT !.workspace_info = (CurProg :> get_workspace_slots(linear)) @@ @]
    /\ IF CodegenPanics(linear)
       THEN /\ Fail("codegen")
            /\ UNCHANGED <<written, cur>>
       ELSE /\ written' = written \cup {<<CurProg, "c">>, <<CurProg, "h">>}
            /\ cur' = cur + 1
            /\ pc' = IF cur = Len(plan.execution_order) THEN "link" ELSE "inline"
            /\ failedAt' = failedAt
    /\ UNCHANGED <<kernel, algebra, manifest, files, depGraph, raw, resolved, linear, runtime>>

\* lines 71-72: generate_runtime_c and write runtime.c
Link ==
    /\ pc = "link"
    /\ IF LinkerPanics(plan)
       THEN /\ Fail("link")
            /\ UNCHANGED <<runtime, written>>
       ELSE /\ runtime' = generate_runtime_c(plan)
            /\ written' = written \cup {<<"runtime", "c">>}
            /\ pc' = "done"
            /\ failedAt' = failedAt
    /\ UNCHANGED <<kernel, algebra, manifest, files, plan, depGraph, cur, raw, resolved, linear>>

Next == \/ Analyze
        \/ Inline
        \/ Resolve
        \/ Linearize
        \/ Emit
        \/ Link

\* no call of the shape algebra is under way
NoAlgebra == [fn |-> "none", a |-> <<>>, b |-> <<>>, out |-> <<>>, done |-> FALSE]

NoKernel == [phase |-> "none", nodes |-> <<>>, groups |-> <<>>, g |-> 0, pending |-> {},
             init |-> <<>>, buf |-> <<>>]

InitDriver ==
    /\ pc = "start"
    /\ failedAt = ""
    /\ plan = NoPlan
    /\ depGraph = NoDepGraph
    /\ cur = 1
    /\ raw = EmptyRaw
    /\ resolved = NoResolved
    /\ linear = NoLinear
    /\ written = {}
    /\ runtime = NoRuntime

----------------------------------------------------------------------------
(* Projects: manifests over the programs P, Q, R, each compiled from the    *)
(* same one-node graph, wired by up to MaxProgLinks links.                  *)

UnitGraph ==
    [inputs |-> <<JPort("in")>>,
     outputs |-> <<JPort("out")>>,
     nodes |-> <<PrimNode(<<"a">>, OpUnary("Sin"))>>,
     links |-> << << <<<<"inputs">>, "in">>, <<<<"a">>, "x">> >>,
                  << <<<<"a">>, "output">>, <<<<"outputs">>, "out">> >> >>]

ProjProgIds == {"P", "Q", "R"}

ProjProgramLists ==
    UNION {Perms(S) : S \in (SUBSET ProjProgIds) \ {{}}}

ProjSrcAddrs == <<<<"sources", "s">>, <<"P", "out">>, <<"Q", "out">>, <<"R", "out">>>>

ProjDstAddrs == <<<<"sources", "s">>, <<"P", "in">>, <<"Q", "in">>, <<"R", "in">>>>

ProjLinkUniverse ==
    [k \in 1..(Len(ProjSrcAddrs) * Len(ProjDstAddrs)) |->
        <<ProjSrcAddrs[((k - 1) \div Len(ProjDstAddrs)) + 1],
          ProjDstAddrs[((k - 1) % Len(ProjDstAddrs)) + 1]>>]

PickLinks(universe, maxLinks) ==
    {[i \in 1..Len(ix) |-> universe[ix[i]]] : ix \in SubSeqsUpTo(Len(universe), maxLinks)}

InitProject ==
    /\ manifest \in [programs : {[i \in 1..Len(ids) |-> [id |-> ids[i], path |-> "unit"]] : ids \in ProjProgramLists},
                     links : PickLinks(ProjLinkUniverse, MaxProgLinks),
                     sources : {[r \in {"s"} |-> <<JValue(4)>>]}]
    /\ files = [f \in {"unit"} |-> UnitGraph]
    /\ algebra = NoAlgebra
    /\ kernel = NoKernel
    /\ InitDriver

Spec == InitProject /\ [][Next]_vars

----------------------------------------------------------------------------
(* Projects with programs that fail to compile: P and Q, each compiled from *)
(* unit.json, from cyc.json (a node fed by its own output: resolve_module   *)
(* fails) or from ref.json (an instance of a file that does not exist:      *)
(* load_and_inline fails)                                                   *)

CycGraph ==
    [inputs |-> <<JPort("in")>>,
     outputs |-> <<JPort("out")>>,
     nodes |-> <<PrimNode(<<"a">>, OpBinary("Add"))>>,
     links |-> << << <<<<"inputs">>, "in">>, <<<<"a">>, "x">> >>,
                  << <<<<"a">>, "output">>, <<<<"a">>, "y">> >>,
                  << <<<<"a">>, "output">>, <<<<"outputs">>, "out">> >> >>]

DanglingGraph ==
    [inputs |-> <<JPort("in")>>,
     outputs |-> <<JPort("out")>>,
     nodes |-> <<SubNode(<<"s">>, "nofile")>>,
     links |-> << << <<<<"inputs">>, "in">>, <<<<"s">>, "i">> >>,
                  << <<<<"s">>, "o">>, <<<<"outputs">>, "out">> >> >>]

FailingFiles == ("unit" :> UnitGraph) @@ ("cyc" :> CycGraph) @@ ("ref" :> DanglingGraph)

FailingProgramLists ==
    UNION {Perms(S) : S \in (SUBSET {"P", "Q"}) \ {{}}}

FailingSrcAddrs == <<<<"sources", "s">>, <<"P", "out">>, <<"Q", "out">>>>

FailingDstAddrs == <<<<"sources", "s">>, <<"P", "in">>, <<"Q", "in">>>>

FailingLinkUniverse ==
    [k \in 1..(Len(FailingSrcAddrs) * Len(FailingDstAddrs)) |->
        <<FailingSrcAddrs[((k - 1) \div Len(FailingDstAddrs)) + 1],
          FailingDstAddrs[((k - 1) % Len(FailingDstAddrs)) + 1]>>]

InitFailing ==
    /\ manifest \in [programs : UNION {[1..Len(ids) -> [id : {"P", "Q"}, path : DOMAIN FailingFiles]]
                                        : ids \in FailingProgramLists},
                     links : PickLinks(FailingLinkUniverse, MaxProgLinks),
                     sources : {[r \in {"s"} |-> <<JValue(4)>>]}]
    /\ \A i, j \in 1..Len(manifest.programs) :
           i # j => manifest.programs[i].id # manifest.programs[j].id
    /\ files = FailingFiles
    /\ algebra = NoAlgebra
    /\ kernel = NoKernel
    /\ InitDriver

SpecFailing == InitFailing /\ [][Next]_vars

----------------------------------------------------------------------------
(* Ports: the program P compiled from two.json, a graph with the inputs x   *)
(* and y and the outputs o and out, declared in either order, with or       *)
(* without shapes on the outputs, and any selection of the links below;     *)
(* optionally followed by Q, compiled from unit.json and fed from P.o.      *)

PortLinkUniverse ==
    << << <<<<"inputs">>, "x">>, <<<<"a">>, "x">> >>,
       << <<<<"inputs">>, "y">>, <<<<"b">>, "x">> >>,
       << <<<<"a">>, "output">>, <<<<"outputs">>, "o">> >>,
       << <<<<"b">>, "output">>, <<<<"outputs">>, "out">> >>,
       << <<<<"inputs">>, "x">>, <<<<"outputs">>, "out">> >>,
       << <<<<"inputs">>, "y">>, <<<<"outputs">>, "o">> >> >>

\* the output port as the file declares it: without a shape, or with one
PortDecl(name, shaped) == IF shaped THEN JPortShaped(name, <<JValue(4)>>) ELSE JPort(name)

PortGraphs ==
    {[inputs |-> [i \in 1..2 |-> JPort(ins[i])],
      outputs |-> [i \in 1..2 |-> PortDecl(outs[i], shaped)],
      nodes |-> <<PrimNode(<<"a">>, OpUnary("Sin")), PrimNode(<<"b">>, OpUnary("Abs"))>>,
      links |-> links] :
        ins \in Perms({"x", "y"}), outs \in Perms({"o", "out"}), shaped \in BOOLEAN,
        links \in PickLinks(PortLinkUniverse, Len(PortLinkUniverse))}

PortManifests ==
    {[programs |-> <<[id |-> "P", path |-> "two"]>>,
      links |-> << <<<<"sources", "s">>, <<"P", "x">>>>, <<<<"sources", "t">>, <<"P", "y">>>> >>,
      sources |-> ("s" :> <<JValue(4)>>) @@ ("t" :> <<JValue(2)>>)],
     [programs |-> <<[id |-> "P", path |-> "two"]>>,
      links |-> << <<<<"sources", "t">>, <<"P", "y">>>> >>,
      sources |-> ("s" :> <<JValue(4)>>) @@ ("t" :> <<JValue(2)>>)],
     [programs |-> <<[id |-> "P", path |-> "two"], [id |-> "Q", path |-> "unit"]>>,
      links |-> << <<<<"sources", "s">>, <<"P", "x">>>>, <<<<"sources", "t">>, <<"P", "y">>>>,
                   <<<<"P", "o">>, <<"Q", "in">>>> >>,
      sources |-> ("s" :> <<JValue(4)>>) @@ ("t" :> <<JValue(2)>>)]}

InitPorts ==
    /\ manifest \in PortManifests
    /\ files \in {("two" :> g) @@ ("unit" :> UnitGraph) : g \in PortGraphs}
    /\ algebra = NoAlgebra
    /\ kernel = NoKernel
    /\ InitDriver

SpecPorts == InitPorts /\ [][Next]_vars

----------------------------------------------------------------------------
(* Modules: one program P whose input x is fed from the resource s, over    *)
(* graphs of two primitive nodes a and b wired by up to MaxGraphLinks links *)

ModOpsA == {OpUnary("Sin"), OpSplit(0, 2), OpConstant(2)}

ModOpsB == {OpUnary("Abs"), OpBinary("Add"), OpReshape(<<Variable("_"), Static(2)>>)}

ModSrcAddrs == <<<<<<"inputs">>, "x">>, <<<<"a">>, "output">>, <<<<"b">>, "output">>>>

ModDstAddrs == <<<<<<"outputs">>, "y">>, <<<<"a">>, "x">>, <<<<"b">>, "x">>, <<<<"b">>, "y">>>>

ModLinkUniverse ==
    [k \in 1..(Len(ModSrcAddrs) * Len(ModDstAddrs)) |->
        <<ModSrcAddrs[((k - 1) \div Len(ModDstAddrs)) + 1],
          ModDstAddrs[((k - 1) % Len(ModDstAddrs)) + 1]>>]

ModGraphs ==
    [inputs : {<<JPort("x")>>},
     outputs : {<<JPort("y")>>},
     nodes : {<<PrimNode(<<"a">>, oa), PrimNode(<<"b">>, ob)>> : oa \in ModOpsA, ob \in ModOpsB},
     links : PickLinks(ModLinkUniverse, MaxGraphLinks)]

ModSourceShapes == {<<JValue(4)>>, <<JSymbol("_"), JValue(2)>>}

InitModule ==
    /\ manifest \in [programs : {<<[id |-> "P", path |-> "main"]>>},
                     links : {<< <<<<"sources", "s">>, <<"P", "x">>>> >>},
                     sources : {[r \in {"s"} |-> sh] : sh \in ModSourceShapes}]
    /\ files \in {[f \in {"main"} |-> g] : g \in ModGraphs}
    /\ algebra = NoAlgebra
    /\ kernel = NoKernel
    /\ InitDriver

SpecModule == InitModule /\ [][Next]_vars

----------------------------------------------------------------------------
(* Sub-graphs: one program P whose root graph holds a node s, which may be  *)
(* a reference to a library graph, and a second primitive node.             *)

ChildGraph ==
    [inputs |-> <<JPort("i")>>,
     outputs |-> <<JPort("o")>>,
     nodes |-> <<PrimNode(<<"n">>, OpUnary("Sin"))>>,
     links |-> << << <<<<"inputs">>, "i">>, <<<<"n">>, "x">> >>,
                  << <<<<"n">>, "output">>, <<<<"outputs">>, "o">> >> >>]

FanGraph ==
    [inputs |-> <<JPort("i")>>,
     outputs |-> <<JPort("o")>>,
     nodes |-> <<PrimNode(<<"n">>, OpBinary("Add"))>>,
     links |-> << << <<<<"inputs">>, "i">>, <<<<"n">>, "x">> >>,
                  << <<<<"inputs">>, "i">>, <<<<"n">>, "y">> >>,
                  << <<<<"n">>, "output">>, <<<<"outputs">>, "o">> >> >>]

WrapGraph ==
    [inputs |-> <<JPort("i")>>,
     outputs |-> <<JPort("o")>>,
     nodes |-> <<SubNode(<<"n">>, "fan")>>,
     links |-> << << <<<<"inputs">>, "i">>, <<<<"n">>, "i">> >>,
                  << <<<<"n">>, "o">>, <<<<"outputs">>, "o">> >> >>]

PassGraph ==
    [inputs |-> <<JPort("i")>>,
     outputs |-> <<JPort("o")>>,
     nodes |-> <<>>,
     links |-> << << <<<<"inputs">>, "i">>, <<<<"outputs">>, "o">> >> >>]

\* a sub-graph whose only node is an instance of the file named by path
RefGraph(path) ==
    [inputs |-> <<JPort("i")>>,
     outputs |-> <<JPort("o")>>,
     nodes |-> <<SubNode(<<"n">>, path)>>,
     links |-> << << <<<<"inputs">>, "i">>, <<<<"n">>, "i">> >>,
                  << <<<<"n">>, "o">>, <<<<"outputs">>, "o">> >> >>]

\* loop.json refers to itself; ping.json and pong.json refer to each other
Library ==
    ("child" :> ChildGraph) @@ ("fan" :> FanGraph) @@ ("wrap" :> WrapGraph) @@ ("pass" :> PassGraph)
    @@ ("loop" :> RefGraph("loop")) @@ ("ping" :> RefGraph("pong")) @@ ("pong" :> RefGraph("ping"))

SubFirstNodes == {SubNode(<<"s">>, f) : f \in DOMAIN Library} \cup {PrimNode(<<"s">>, OpUnary("Sin"))}

SubSecondNodes == {PrimNode(<<"a">>, OpUnary("Abs")), PrimNode(<<"s", "n">>, OpUnary("Abs")),
                   PrimNode(<<"s_n">>, OpUnary("Abs"))}

SubSrcAddrs == <<<<<<"inputs">>, "x">>, <<<<"s">>, "o">>, <<<<"s">>, "output">>, <<<<"a">>, "output">>>>

SubDstAddrs == <<<<<<"outputs">>, "y">>, <<<<"s">>, "i">>, <<<<"s">>, "x">>, <<<<"a">>, "x">>>>

SubLinkUniverse ==
    [k \in 1..(Len(SubSrcAddrs) * Len(SubDstAddrs)) |->
        <<SubSrcAddrs[((k - 1) \div Len(SubDstAddrs)) + 1],
          SubDstAddrs[((k - 1) % Len(SubDstAddrs)) + 1]>>]

SubGraphs ==
    [inputs : {<<JPort("x")>>},
     outputs : {<<JPort("y")>>},
     nodes : {<<n1, n2>> : n1 \in SubFirstNodes, n2 \in SubSecondNodes},
     links : PickLinks(SubLinkUniverse, MaxGraphLinks)]

InitInline ==
    /\ manifest \in [programs : {<<[id |-> "P", path |-> "main"]>>},
                     links : {<< <<<<"sources", "s">>, <<"P", "x">>>> >>},
                     sources : {[r \in {"s"} |-> <<JValue(4)>>]}]
    /\ files \in {("main" :> g) @@ Library : g \in SubGraphs}
    /\ algebra = NoAlgebra
    /\ kernel = NoKernel
    /\ InitDriver

SpecInline == InitInline /\ [][Next]_vars

----------------------------------------------------------------------------
(* shape_engine.rs: the shape algebra over model.rs Dimension.  A Dimension  *)
(* is one record shape for all variants; args holds the two operands of an   *)
(* arithmetic node.                                                          *)

MaxRank == 2

DimValue(n) == [k |-> "Value", v |-> n, s |-> "", args |-> <<>>]

DimSymbol(name) == [k |-> "Symbol", v |-> 0, s |-> name, args |-> <<>>]

DimAdd(l, r) == [k |-> "Add", v |-> 0, s |-> "", args |-> <<l, r>>]

DimMul(l, r) == [k |-> "Mul", v |-> 0, s |-> "", args |-> <<l, r>>]

\* Dimension::is_wildcard: the dimension written "_"
is_wildcard(d) == d = DimSymbol("_")

\* Dimension::is_ellipsis: the dimension written "..."
is_ellipsis(d) == d = DimSymbol("...")

\* usize::saturating_sub
SatSub(a, b) == IF a > b THEN a - b ELSE 0

\* dims.iter().position(|d| d.is_ellipsis()), 1-based, 0 for None
EllipsisPos(dims) ==
    IF \E i \in 1..Len(dims) : is_ellipsis(dims[i])
    THEN CHOOSE i \in 1..Len(dims) : is_ellipsis(dims[i]) /\ \A j \in 1..(i - 1) : ~is_ellipsis(dims[j])
    ELSE 0

\* an ellipsis filled with 1s, whatever the target holds
ExpandAtOnes(dims, target, p) ==
    LET needed == SatSub(SatSub(Len(target), Len(dims) - p), p - 1)
    IN SubSeq(dims, 1, p - 1) \o [i \in 1..needed |-> DimValue(1)] \o SubSeq(dims, p + 1, Len(dims))

\* the dims of `dims` with the ellipsis at 1-based position p replaced
\* (lines 85-100)
ExpandAt(dims, target, p) ==
    LET needed == SatSub(SatSub(Len(target), Len(dims) - p), p - 1)
    IN SubSeq(dims, 1, p - 1)
       \o [i \in 1..needed |-> IF p - 1 + i <= Len(target) THEN target[p - 1 + i] ELSE DimValue(1)]
       \o SubSeq(dims, p + 1, Len(dims))

\* ShapeEngine::expand_ellipsis_from_target (lines 81-104)
expand_ellipsis_from_target(dims, target) ==
    IF EllipsisPos(dims) = 0 THEN dims ELSE ExpandAt(dims, target, EllipsisPos(dims))

UnifyErr == [ok |-> FALSE, dims |-> <<>>]

\* ShapeEngine::unify_dims (lines 64-78)
unify_dims(d1, d2) ==
    IF d1 = d2 THEN [ok |-> TRUE, d |-> d1]
    ELSE IF is_wildcard(d1) THEN [ok |-> TRUE, d |-> d2]
    ELSE IF is_wildcard(d2) THEN [ok |-> TRUE, d |-> d1]
    ELSE IF d1 = DimValue(1) THEN [ok |-> TRUE, d |-> d2]
    ELSE IF d2 = DimValue(1) THEN [ok |-> TRUE, d |-> d1]
    ELSE IF d1.k = "Value" /\ d2.k = "Value" /\ d1.v # d2.v THEN [ok |-> FALSE, d |-> d1]
    ELSE [ok |-> TRUE, d |-> d1]

\* the pair of dimensions at position i of the right-aligned shapes of
\* rank n (lines 44-55)
UnifyAt(d1, d2, n, i) ==
    IF i <= n - Len(d1) THEN [ok |-> TRUE, d |-> d2[i - (n - Len(d2))]]
    ELSE IF i <= n - Len(d2) THEN [ok |-> TRUE, d |-> d1[i - (n - Len(d1))]]
    ELSE unify_dims(d1[i - (n - Len(d1))], d2[i - (n - Len(d2))])

\* the loop of unify from the last dimension to the first (lines 40-61)
UnifyAligned(d1, d2, n) ==
    IF \E i \in 1..n : ~UnifyAt(d1, d2, n, i).ok THEN UnifyErr
    ELSE [ok |-> TRUE, dims |-> [i \in 1..n |-> UnifyAt(d1, d2, n, i).d]]

\* unify after the first expansion returned d1 (lines 38-61)
UnifyExpanded(d1, d2) ==
    UnifyAligned(d1, d2, IF Len(d1) > Len(d2) THEN Len(d1) ELSE Len(d2))

\* ShapeEngine::unify (lines 36-62)
unify(s1, s2) ==
    UnifyExpanded(expand_ellipsis_from_target(s1, s2),
                  expand_ellipsis_from_target(s2, expand_ellipsis_from_target(s1, s2)))

DimSub(l, r) == [k |-> "Sub", v |-> 0, s |-> "", args |-> <<l, r>>]

\* the Add arm of simplify on the simplified operands (lines 12-17)
SimplifyAdd(l, r) ==
    IF l = DimValue(0) THEN r
    ELSE IF r = DimValue(0) THEN l
    ELSE IF l.k = "Value" /\ r.k = "Value" THEN DimValue(l.v + r.v)
    ELSE DimAdd(l, r)

\* a Mul arm that has no case for a factor 0
SimplifyMulNoZero(l, r) ==
    IF l = DimValue(1) THEN r
    ELSE IF r = DimValue(1) THEN l
    ELSE IF l.k = "Value" /\ r.k = "Value" /\ l.v # 0 /\ r.v # 0 THEN DimValue(l.v * r.v)
    ELSE DimMul(l, r)

\* the Mul arm of simplify on the simplified operands (lines 22-28)
SimplifyMul(l, r) ==
    IF l = DimValue(1) THEN r
    ELSE IF r = DimValue(1) THEN l
    ELSE IF l = DimValue(0) \/ r = DimValue(0) THEN DimValue(0)
    ELSE IF l.k = "Value" /\ r.k = "Value" THEN DimValue(l.v * r.v)
    ELSE DimMul(l, r)

\* ShapeEngine::simplify (lines 7-32)
RECURSIVE simplify(_)
simplify(dim) ==
    IF dim.k = "Add" THEN SimplifyAdd(simplify(dim.args[1]), simplify(dim.args[2]))
    ELSE IF dim.k = "Mul" THEN SimplifyMul(simplify(dim.args[1]), simplify(dim.args[2]))
    ELSE dim

pipelineVars == <<manifest, files, pc, failedAt, plan, depGraph, cur, raw, resolved, linear, written, runtime>>

\* a caller applies ShapeEngine::unify to two shapes
Unify ==
    /\ algebra.fn = "unify"
    /\ ~algebra.done
    /\ algebra' = [algebra EXCEPT !.out = unify(algebra.a, algebra.b), !.done = TRUE]
    /\ UNCHANGED pipelineVars
    /\ UNCHANGED kernel

\* a caller applies ShapeEngine::simplify to A + 0, 0 + A, A * 1, 1 * A,
\* A * 0 and 0 * A for the expression A
Simplify ==
    /\ algebra.fn = "simplify"
    /\ ~algebra.done
    /\ algebra' = [algebra EXCEPT
           !.out = [add0 |-> <<simplify(DimAdd(algebra.a[1], DimValue(0))),
                               simplify(DimAdd(DimValue(0), algebra.a[1]))>>,
                    mul1 |-> <<simplify(DimMul(algebra.a[1], DimValue(1))),
                               simplify(DimMul(DimValue(1), algebra.a[1]))>>,
                    mul0 |-> <<simplify(DimMul(algebra.a[1], DimValue(0))),
                               simplify(DimMul(DimValue(0), algebra.a[1]))>>],
           !.done = TRUE]
    /\ UNCHANGED pipelineVars
    /\ UNCHANGED kernel

\* a caller applies the resolver's broadcast_shapes to two concrete shapes
Broadcast ==
    /\ algebra.fn = "broadcast"
    /\ ~algebra.done
    /\ algebra' = [algebra EXCEPT !.out = broadcast_shapes(algebra.a, algebra.b),
                                  !.done = TRUE]
    /\ UNCHANGED pipelineVars
    /\ UNCHANGED kernel

NextAlgebra == Unify \/ Simplify \/ Broadcast

\* the dimensions shapes are drawn from: values, named symbols, "_", "..."
AlgebraDims == {DimValue(1), DimValue(2), DimValue(3), DimSymbol("N"), DimSymbol("M"),
                DimSymbol("_"), DimSymbol("...")}

AlgebraShapes == UNION {[1..n -> AlgebraDims] : n \in 0..MaxRank}

UnifyCalls == {[fn |-> "unify", a |-> a, b |-> b, out |-> <<>>, done |-> FALSE] :
                  a \in AlgebraShapes, b \in AlgebraShapes}

MaxExprDepth == 1

ExprLeaves == {DimValue(0), DimValue(1), DimValue(2), DimSymbol("N")}

\* the dimension expressions of nesting depth up to d
RECURSIVE ExprsUpTo(_)
ExprsUpTo(d) ==
    IF d = 0 THEN ExprLeaves
    ELSE ExprsUpTo(d - 1)
         \cup {DimAdd(l, r) : l \in ExprsUpTo(d - 1), r \in ExprsUpTo(d - 1)}
         \cup {DimMul(l, r) : l \in ExprsUpTo(d - 1), r \in ExprsUpTo(d - 1)}
         \cup {DimSub(l, r) : l \in ExprsUpTo(d - 1), r \in ExprsUpTo(d - 1)}

SimplifyCalls == {[fn |-> "simplify", a |-> <<e>>, b |-> <<>>, out |-> <<>>, done |-> FALSE] :
                     e \in ExprsUpTo(MaxExprDepth)}

MaxDim == 3

ConcreteShapes == UNION {[1..n -> {Static(v) : v \in 0..MaxDim}] : n \in 0..MaxRank}

BroadcastCalls == {[fn |-> "broadcast", a |-> a, b |-> b, out |-> <<>>, done |-> FALSE] :
                      a \in ConcreteShapes, b \in ConcreteShapes}

InitAlgebra ==
    /\ manifest = [programs |-> <<>>, links |-> <<>>, sources |-> <<>>]
    /\ files = <<>>
    /\ \/ algebra \in UnifyCalls
       \/ algebra \in SimplifyCalls
       \/ algebra \in BroadcastCalls
    /\ kernel = NoKernel
    /\ InitDriver

SpecAlgebra == InitAlgebra /\ [][NextAlgebra]_vars

----------------------------------------------------------------------------
(* codegen_c.rs: the loop groups of the earlier code generator.  A node is  *)
(* a model.rs Node with concrete dimensions and default strides; a buffer   *)
(* is a function from the flat element index to the element's value.       *)

KernelDim == 2

KNode(id, tag, input, perm, axis, dims) ==
    [id |-> id, tag |-> tag, input |-> input, perm |-> perm, axis |-> axis, dims |-> dims]

RECURSIVE Product(_)
Product(s) == IF s = <<>> THEN 1 ELSE Head(s) * Product(Tail(s))

RECURSIVE SumSeq(_)
SumSeq(s) == IF s = <<>> THEN 0 ELSE Head(s) + SumSeq(Tail(s))

\* TensorShape::default_strides_c_expr (model.rs lines 51-59)
default_strides(dims) == [i \in 1..Len(dims) |-> Product(SubSeq(dims, i + 1, Len(dims)))]

\* Op::infer_shape (model.rs lines 113-135) for the operators of the groups
KInferShape(tag, in_dims, perm, axis) ==
    IF tag = "Transpose" THEN [i \in 1..Len(perm) |-> in_dims[perm[i] + 1]]
    ELSE IF tag = "ReduceSum"
         THEN IF axis < Len(in_dims) THEN RemoveAt(in_dims, axis + 1) ELSE in_dims
    ELSE in_dims

\* get_node_by_id (lines 440-447)
get_node_by_id(nodes, id) == nodes[CHOOSE k \in 1..Len(nodes) : nodes[k].id = id]

\* generate_index_expr (lines 408-429): the index into node's buffer for the
\* loop variables idx = <<i0, i1, ...>> of a target of rank target_rank
generate_index_expr(node, target_rank, idx) ==
    SumSeq([d \in 1..Len(node.dims) |->
               IF d <= target_rank /\ node.dims[d] # 1
               THEN idx[d] * default_strides(node.dims)[d] ELSE 0])

\* the index of the input of a Transpose (lines 390-399)
TransposeIndex(in_node, permutation, idx) ==
    SumSeq([n \in 1..Len(permutation) |->
               idx[n] * default_strides(in_node.dims)[permutation[n] + 1]])

\* generate_body_expr (lines 383-406): the assignment the body of node makes
\* for the loop variables idx: buffer[target] = op(buffer[source])
generate_body_expr(nodes, node, idx) ==
    [target |-> <<node.id, SumSeq([d \in 1..Len(node.dims) |->
                                      idx[d] * default_strides(node.dims)[d]])>>,
     source |-> <<node.input,
                  IF node.tag = "Transpose"
                  THEN TransposeIndex(get_node_by_id(nodes, node.input), node.perm, idx)
                  ELSE generate_index_expr(get_node_by_id(nodes, node.input), Len(node.dims), idx)>>,
     tag |-> node.tag]

\* create_group (lines 168-195): loops over the dimensions of the target,
\* the outermost marked PARALLEL
create_group(node) ==
    [kind |-> "loops", shape |-> node.dims, parallel |-> Len(node.dims) > 0,
     outer |-> IF Len(node.dims) > 0 THEN node.dims[1] ELSE 1, operations |-> <<>>]

\* the first dimension of the input that is not the reduced axis
FirstOuterDim(axis) == IF axis = 0 THEN 2 ELSE 1

\* create_reduction_group (lines 201-249) for an input of rank 2: a PARALLEL
\* loop over the dimension that is not reduced, the accumulation over axis
\* inside it
create_reduction_group(nodes, node) ==
    [kind |-> "reduction", shape |-> <<>>, parallel |-> TRUE,
     outer |-> get_node_by_id(nodes, node.input).dims[FirstOuterDim(node.axis)],
     operations |-> <<node.id>>]

\* g.operations.push(OpRenderInfo { id, body }) (lines 127-131, 140-144)
PushOperation(g, node) == [g EXCEPT !.operations = Append(@, node.id)]

\* can_fuse (lines 107-111); current_group holds the open group, if any
CanFuse(current_group, node) ==
    /\ current_group # <<>>
    /\ current_group[1].shape = node.dims
    /\ node.tag # "ReduceSum"

\* the loop over prog.execution_order of generate (lines 98-149), from
\* node i on
RECURSIVE GroupNodes(_, _, _, _)
GroupNodes(nodes, i, all_groups, current_group) ==
    IF i > Len(nodes) THEN all_groups \o current_group
    ELSE IF nodes[i].tag \in {"Constant", "Input"}
         THEN GroupNodes(nodes, i + 1, all_groups, current_group)
    ELSE IF CanFuse(current_group, nodes[i])
         THEN GroupNodes(nodes, i + 1, all_groups, <<PushOperation(current_group[1], nodes[i])>>)
    ELSE IF nodes[i].tag = "ReduceSum"
         THEN GroupNodes(nodes, i + 1,
                         all_groups \o current_group \o <<create_reduction_group(nodes, nodes[i])>>, <<>>)
    ELSE GroupNodes(nodes, i + 1, all_groups \o current_group,
                    <<PushOperation(create_group(nodes[i]), nodes[i])>>)

\* one loop nest per node: what the emitter produces when it never fuses
RECURSIVE GroupNodesAlone(_, _)
GroupNodesAlone(nodes, i) ==
    IF i > Len(nodes) THEN <<>>
    ELSE IF nodes[i].tag \in {"Constant", "Input"} THEN GroupNodesAlone(nodes, i + 1)
    ELSE IF nodes[i].tag = "ReduceSum"
         THEN <<create_reduction_group(nodes, nodes[i])>> \o GroupNodesAlone(nodes, i + 1)
    ELSE <<PushOperation(create_group(nodes[i]), nodes[i])>> \o GroupNodesAlone(nodes, i + 1)

\* the value an operator computes from the element it reads
ApplyOp(tag, v) == IF tag = "Square" THEN v * v ELSE v

\* the assignment of one body: buffer[target] = op(buffer[source])
AssignBody(buf, body) ==
    [buf EXCEPT ![body.target[1]][body.target[2]] =
        ApplyOp(body.tag, buf[body.source[1]][body.source[2]])]

\* the operations of a group executed in order for the loop variables idx
RECURSIVE RunOperations(_, _, _, _, _)
RunOperations(nodes, buf, ops, j, idx) ==
    IF j > Len(ops) THEN buf
    ELSE RunOperations(nodes,
                       AssignBody(buf, generate_body_expr(nodes, get_node_by_id(nodes, ops[j]), idx)),
                       ops, j + 1, idx)

\* the loop variables <<i0, i1, ...>> of the inner loops of a loop nest over
\* dims for the outer variable i0, in the order the loops visit them
InnerIndexes(dims, i0) ==
    [k \in 1..Product(Tail(dims)) |->
        <<i0>> \o [d \in 1..(Len(dims) - 1) |->
                     ((k - 1) \div default_strides(Tail(dims))[d]) % Tail(dims)[d]]]

RECURSIVE RunIndexes(_, _, _, _, _)
RunIndexes(nodes, buf, ops, indexes, k) ==
    IF k > Len(indexes) THEN buf
    ELSE RunIndexes(nodes, RunOperations(nodes, buf, ops, 1, indexes[k]), ops, indexes, k + 1)

\* the accumulation of a reduction group for the outer variable i0 (lines
\* 225-236): target = 0, then target += input over the reduced axis
RECURSIVE Accumulate(_, _, _, _, _)
Accumulate(buf, node, in_node, i0, r) ==
    IF r >= in_node.dims[node.axis + 1] THEN buf
    ELSE Accumulate([buf EXCEPT ![node.id][i0 * default_strides(node.dims)[1]] =
                        @ + buf[in_node.id][generate_index_expr(in_node, Len(in_node.dims),
                                               IF node.axis = 0 THEN <<r, i0>> ELSE <<i0, r>>)]],
                    node, in_node, i0, r + 1)

\* one iteration i0 of the outermost loop of a group
RunIteration(nodes, buf, group, i0) ==
    IF group.kind = "reduction"
    THEN Accumulate([buf EXCEPT ![group.operations[1]]
                                 [i0 * default_strides(get_node_by_id(nodes, group.operations[1]).dims)[1]] = 0],
                    get_node_by_id(nodes, group.operations[1]),
                    get_node_by_id(nodes, get_node_by_id(nodes, group.operations[1]).input),
                    i0, 0)
    ELSE RunIndexes(nodes, buf, group.operations, InnerIndexes(group.shape, i0), 1)

\* a group run with its outer iterations in increasing order, from i0 on
RECURSIVE RunGroup(_, _, _, _)
RunGroup(nodes, buf, group, i0) ==
    IF i0 >= group.outer THEN buf
    ELSE RunGroup(nodes, RunIteration(nodes, buf, group, i0), group, i0 + 1)

\* the groups run one after the other, from group g on
RECURSIVE RunGroups(_, _, _, _)
RunGroups(nodes, buf, groups, g) ==
    IF g > Len(groups) THEN buf
    ELSE RunGroups(nodes, RunGroup(nodes, buf, groups[g], 0), groups, g + 1)

\* CodegenC::generate builds the groups of the program
Generate ==
    /\ kernel.phase = "new"
    /\ kernel' = [kernel EXCEPT
           !.groups = GroupNodes(kernel.nodes, 1, <<>>, <<>>),
           !.g = 1,
           !.pending = 0..(GroupNodes(kernel.nodes, 1, <<>>, <<>>)[1].outer - 1),
           !.phase = "run"]
    /\ UNCHANGED pipelineVars
    /\ UNCHANGED algebra

\* the emitted code runs one iteration of the outermost loop of the current
\* group; the iterations of a PARALLEL loop run in any order
Iterate ==
    /\ kernel.phase = "run"
    /\ \E i0 \in kernel.pending :
         /\ kernel.groups[kernel.g].parallel \/ i0 = CHOOSE m \in kernel.pending :
                                                      \A n \in kernel.pending : m <= n
         /\ kernel' = [kernel EXCEPT
                !.buf = RunIteration(kernel.nodes, kernel.buf, kernel.groups[kernel.g], i0),
                !.pending = IF kernel.pending # {i0} THEN kernel.pending \ {i0}
                            ELSE IF kernel.g = Len(kernel.groups) THEN {}
                            ELSE 0..(kernel.groups[kernel.g + 1].outer - 1),
                !.g = IF kernel.pending = {i0} /\ kernel.g < Len(kernel.groups)
                      THEN kernel.g + 1 ELSE kernel.g,
                !.phase = IF kernel.pending = {i0} /\ kernel.g = Len(kernel.groups)
                          THEN "done" ELSE "run"]
    /\ UNCHANGED pipelineVars
    /\ UNCHANGED algebra

NextKernel == Generate \/ Iterate

KernelShapes == [1..2 -> 1..KernelDim]

KernelPerms == {<<0, 1>>, <<1, 0>>}

\* the nodes x (Input), a and b of a program: a reads x, b reads a
KernelFirstNodes(dims) ==
    {KNode("a", "Square", "x", <<>>, 0, dims)}
    \cup {KNode("a", "Transpose", "x", p, 0, KInferShape("Transpose", dims, p, 0)) : p \in KernelPerms}

KernelSecondNodes(dims) ==
    {KNode("b", t, "a", <<>>, 0, dims) : t \in {"Square", "Reshape", "Output"}}
    \cup {KNode("b", "Transpose", "a", p, 0, KInferShape("Transpose", dims, p, 0)) : p \in KernelPerms}
    \cup {KNode("b", "ReduceSum", "a", <<>>, ax, KInferShape("ReduceSum", dims, <<>>, ax)) : ax \in {0, 1}}

KernelPrograms ==
    UNION {UNION {{<<KNode("x", "Input", "", <<>>, 0, dims), a, b>> : b \in KernelSecondNodes(a.dims)}
                  : a \in KernelFirstNodes(dims)}
           : dims \in KernelShapes}

\* the buffers before the run: the input holds 1, 2, 3, ...; every element of
\* the other buffers holds the value junk left by an earlier use
KernelBuffers(nodes, junk) ==
    [id \in {nodes[k].id : k \in 1..Len(nodes)} |->
        [e \in 0..(Product(get_node_by_id(nodes, id).dims) - 1) |->
            IF id = "x" THEN e + 1 ELSE junk]]

InitKernel ==
    /\ manifest = [programs |-> <<>>, links |-> <<>>, sources |-> <<>>]
    /\ files = <<>>
    /\ algebra = NoAlgebra
    /\ \E nodes \in KernelPrograms, junk \in {0, 9} :
          kernel = [phase |-> "new", nodes |-> nodes, groups |-> <<>>, g |-> 0, pending |-> {},
                    init |-> KernelBuffers(nodes, junk), buf |-> KernelBuffers(nodes, junk)]
    /\ InitDriver

SpecKernel == InitKernel /\ [][NextKernel]_vars

----------------------------------------------------------------------------
(* linear_passes.rs: shape inference by repeated passes.  The call is held
   in `algebra`: a is the node list, b the shapes the manifest maps to the
   inputs, out the known shapes, the changed flag and the passes run. *)

\* the bound of the pass loop (line 27)
MaxPasses == 15

\* the manifest's parameters the dimensions are evaluated with
InferParameters == [n \in {"N"} |-> 2]

\* a node of the linear IR: id, operator, ids of its inputs, ReduceSum's axis
LNode(id, tag, inputs, axis) == [id |-> id, op |-> tag, inputs |-> inputs, axis |-> axis]

NoShape == [some |-> FALSE, dims |-> <<>>]

SomeShape(dims) == [some |-> TRUE, dims |-> dims]

\* Dimension::eval: a symbol the parameters bind becomes its value
eval(dim, parameters) ==
    IF dim.k = "Symbol" /\ dim.s \in DOMAIN parameters THEN DimValue(parameters[dim.s]) ELSE dim

\* known_shapes.get(id) (lines 35, 40)
KnownGet(known, id) == IF id \in DOMAIN known THEN SomeShape(known[id]) ELSE NoShape

\* known_shapes.insert(id, dims) (line 48)
KnownInsert(known, id, dims) ==
    [k \in DOMAIN known \cup {id} |-> IF k = id THEN dims ELSE known[k]]

\* the shapes of the inputs that are known, in input order (lines 33-38)
RECURSIVE InputShapes(_, _, _)
InputShapes(known, inputs, i) ==
    IF i > Len(inputs) THEN <<>>
    ELSE IF inputs[i] \in DOMAIN known
         THEN <<known[inputs[i]]>> \o InputShapes(known, inputs, i + 1)
         ELSE InputShapes(known, inputs, i + 1)

\* the ellipsis of d at 1-based position p replaced by dimensions taken
\* from target (lines 118-126, 127-134)
SpliceEllipsis(d, target, p) ==
    LET needed == SatSub(Len(target), Len(d) - 1)
    IN SubSeq(d, 1, p - 1)
       \o [i \in 1..needed |-> IF p - 1 + i <= Len(target) THEN target[p - 1 + i] ELSE DimValue(1)]
       \o SubSeq(d, p + 1, Len(d))

\* one pair of dimensions of the broadcast (lines 143-150)
UnifyTwoDim(a, b) ==
    IF a = b THEN a
    ELSE IF a = DimValue(1) THEN b
    ELSE IF b = DimValue(1) THEN a
    ELSE IF a = DimSymbol("_") THEN b
    ELSE IF b = DimSymbol("_") THEN a
    ELSE a

\* the right-aligned broadcast of d1 and d2 to rank n (lines 137-157)
UnifyTwoAligned(d1, d2, n) ==
    [i \in 1..n |->
        IF i <= n - Len(d1) THEN d2[i - (n - Len(d2))]
        ELSE IF i <= n - Len(d2) THEN d1[i - (n - Len(d1))]
        ELSE UnifyTwoDim(d1[i - (n - Len(d1))], d2[i - (n - Len(d2))])]

\* step 2 of unify_two on the expanded dimensions
UnifyTwoExpanded(d1, d2) ==
    UnifyTwoAligned(d1, d2, IF Len(d1) > Len(d2) THEN Len(d1) ELSE Len(d2))

\* d2 of unify_two: s2 with its ellipsis filled from the expanded d1
UnifyTwoRight(d1, s2) ==
    IF EllipsisPos(s2) = 0 THEN s2 ELSE SpliceEllipsis(s2, d1, EllipsisPos(s2))

\* unify_two (lines 111-158)
unify_two(s1, s2) ==
    UnifyTwoExpanded(IF EllipsisPos(s1) = 0 THEN s1 ELSE SpliceEllipsis(s1, s2, EllipsisPos(s1)),
                     UnifyTwoRight(IF EllipsisPos(s1) = 0 THEN s1
                                   ELSE SpliceEllipsis(s1, s2, EllipsisPos(s1)), s2))

\* the fold of unify_and_broadcast from the i-th shape on (lines 104-107)
RECURSIVE UnifyFold(_, _, _)
UnifyFold(result, shapes, i) ==
    IF i > Len(shapes) THEN result
    ELSE UnifyFold(unify_two(result, shapes[i]), shapes, i + 1)

\* unify_and_broadcast(shapes).ok() (lines 66, 101-109)
unify_and_broadcast(shapes) ==
    IF Len(shapes) = 0 THEN NoShape ELSE SomeShape(UnifyFold(shapes[1], shapes, 2))

\* the ReduceSum arm on the first input (lines 89-95); axis is 0-based,
\* a negative axis counts from the end
ReduceSumShape(dims, axis) ==
    LET axis_idx == IF axis < 0 THEN Len(dims) + axis ELSE axis
        removed == IF axis_idx >= 0 /\ axis_idx < Len(dims) THEN RemoveAt(dims, axis_idx + 1) ELSE dims
    IN IF Len(removed) = 0 THEN <<DimValue(1)>> ELSE removed

\* infer_node_shape (lines 63-99): the binary arm, ReduceSum, and the
\* arm of every other operator
infer_node_shape(node, inputs, current) ==
    IF node.op = "Add" THEN unify_and_broadcast(inputs)
    ELSE IF node.op = "ReduceSum"
         THEN IF Len(inputs) = 0 THEN NoShape
              ELSE SomeShape(ReduceSumShape(inputs[1], node.axis))
    ELSE IF Len(inputs) > 0 THEN SomeShape(inputs[1])
    ELSE current

\* the new shape with every dimension evaluated (lines 43-45)
EvalShape(shape, parameters) ==
    [some |-> shape.some,
     dims |-> [i \in 1..Len(shape.dims) |-> eval(shape.dims[i], parameters)]]

\* the shape the pass computes for node i from the known shapes (lines 32-45)
NewShape(nodes, known, i) ==
    EvalShape(infer_node_shape(nodes[i], InputShapes(known, nodes[i].inputs, 1),
                               KnownGet(known, nodes[i].id)),
              InferParameters)

\* a step that stores the new shape and leaves the flag alone
NodeStepSilent(nodes, st, i) ==
    IF NewShape(nodes, st.known, i).some
       /\ NewShape(nodes, st.known, i) # KnownGet(st.known, nodes[i].id)
    THEN [known |-> KnownInsert(st.known, nodes[i].id, NewShape(nodes, st.known, i).dims),
          changed |-> st.changed]
    ELSE st

\* the body of the inner loop for node i (lines 32-50)
NodeStep(nodes, st, i) ==
    IF NewShape(nodes, st.known, i).some
       /\ NewShape(nodes, st.known, i) # KnownGet(st.known, nodes[i].id)
    THEN [known |-> KnownInsert(st.known, nodes[i].id, NewShape(nodes, st.known, i).dims),
          changed |-> TRUE]
    ELSE st

\* the inner loop from node i on (lines 31-51)
RECURSIVE RunPass(_, _, _)
RunPass(nodes, st, i) ==
    IF i > Len(nodes) THEN st ELSE RunPass(nodes, NodeStep(nodes, st, i), i + 1)

\* the shapes the mappings give to the Input nodes from node i on
\* (lines 14-24)
RECURSIVE MappedShapes(_, _, _)
MappedShapes(nodes, mappings, i) ==
    IF i > Len(nodes) THEN <<>>
    ELSE IF nodes[i].op = "Input" /\ nodes[i].id \in DOMAIN mappings
         THEN KnownInsert(MappedShapes(nodes, mappings, i + 1), nodes[i].id, mappings[nodes[i].id])
         ELSE MappedShapes(nodes, mappings, i + 1)

\* one iteration of the pass loop (lines 27-51)
InferPass ==
    /\ algebra.fn = "infer"
    /\ ~algebra.done
    /\ algebra.out.passes < MaxPasses
    /\ algebra.out.changed
    /\ algebra' = [algebra EXCEPT !.out =
          [known |-> RunPass(algebra.a, [known |-> algebra.out.known, changed |-> FALSE], 1).known,
           changed |-> RunPass(algebra.a, [known |-> algebra.out.known, changed |-> FALSE], 1).changed,
           passes |-> algebra.out.passes + 1]]
    /\ UNCHANGED pipelineVars
    /\ UNCHANGED kernel

\* the loop ends: the break of line 28 or the range is exhausted; the
\* known shapes are copied to the nodes (lines 54-60)
InferStop ==
    /\ algebra.fn = "infer"
    /\ ~algebra.done
    /\ (~algebra.out.changed \/ algebra.out.passes = MaxPasses)
    /\ algebra' = [algebra EXCEPT !.done = TRUE]
    /\ UNCHANGED pipelineVars
    /\ UNCHANGED kernel

NextInfer == InferPass \/ InferStop

\* the largest chain of unary nodes drawn
MaxChain == 16

InferShapes == {<<DimValue(2)>>, <<DimValue(1), DimValue(3)>>, <<DimSymbol("N"), DimValue(3)>>,
                <<DimSymbol("_")>>}

\* x and y are inputs, u and v are computed from them and from each other
InferNodeSets ==
    {{LNode("x", "Input", <<>>, 0), LNode("y", "Input", <<>>, 0),
      LNode("u", tu, iu, 0), LNode("v", tv, <<"u", "y">>, ax)} :
        tu \in {"Add", "Relu"}, iu \in {<<"x", "y">>, <<"v">>, <<"y", "x">>},
        tv \in {"Add", "ReduceSum", "Relu"}, ax \in {0, 0 - 1}}

\* every listing order of the four nodes
InferNodeLists == UNION {{[i \in 1..4 |-> p[i]] : p \in Perms(S)} : S \in InferNodeSets}

\* a chain c1 <- c2 <- ... <- cn of unary nodes over the input c0, listed
\* consumer first, so that each pass resolves one more node
ChainId(k) == <<"c", k>>

ReverseChain(n) ==
    [i \in 1..(n + 1) |->
        IF i = n + 1 THEN LNode(ChainId(0), "Input", <<>>, 0)
        ELSE LNode(ChainId(n + 1 - i), "Relu", <<ChainId(n - i)>>, 0)]

InferMappings == {[id \in D |-> s] : D \in {{"x", "y"}, {"x"}}, s \in InferShapes}

InferCall(nodes, mappings) ==
    [fn |-> "infer", a |-> nodes, b |-> mappings,
     out |-> [known |-> MappedShapes(nodes, mappings, 1), changed |-> TRUE, passes |-> 0],
     done |-> FALSE]

InferCalls == {InferCall(nodes, mappings) : nodes \in InferNodeLists, mappings \in InferMappings}

ChainCalls == {InferCall(ReverseChain(n), [id \in {ChainId(0)} |-> <<DimValue(2)>>]) : n \in 1..MaxChain}

InitInfer ==
    /\ manifest = [programs |-> <<>>, links |-> <<>>, sources |-> <<>>]
    /\ files = <<>>
    /\ \/ algebra \in InferCalls
       \/ algebra \in ChainCalls
    /\ kernel = NoKernel
    /\ InitDriver

SpecInfer == InitInfer /\ [][NextInfer]_vars

----------------------------------------------------------------------------
(* resolver/mod.rs: infer_shape applied to one Transpose.  The call is held
   in `algebra`: a is the permutation, b the dimensions of the input. *)

\* the resolver infers the shape of Transpose{permutation} over one input
InferTranspose ==
    /\ algebra.fn = "transpose"
    /\ ~algebra.done
    /\ algebra' = [algebra EXCEPT !.out = infer_shape(OpTranspose(algebra.a), <<algebra.b>>, <<>>),
                                  !.done = TRUE]
    /\ UNCHANGED pipelineVars
    /\ UNCHANGED kernel

\* the largest rank and permutation length drawn
TransposeRank == 3

TransposeShapes == UNION {[1..n -> {Static(2), Static(3)}] : n \in 0..TransposeRank}

\* every index list of length up to the bound, bijections and others
TransposePerms == UNION {[1..n -> 0..TransposeRank] : n \in 0..TransposeRank}

InitTranspose ==
    /\ manifest = [programs |-> <<>>, links |-> <<>>, sources |-> <<>>]
    /\ files = <<>>
    /\ algebra \in [fn : {"transpose"}, a : TransposePerms, b : TransposeShapes,
                    out : {<<>>}, done : {FALSE}]
    /\ kernel = NoKernel
    /\ InitDriver

NextTranspose == InferTranspose

SpecTranspose == InitTranspose /\ [][NextTranspose]_vars

----------------------------------------------------------------------------
(* codegen/mod.rs: the kernel emitted for one MatMul node, run batch by
   batch.  The call is held in `algebra`: a and b are the shapes of the two
   inputs, out the node's shape, the batch counter and the indexes the
   batch just run read from LEFT and RIGHT. *)

\* the number of elements of a shape of static dimensions
ElementCount(dims) == Product([i \in 1..Len(dims) |-> dims[i].v])

\* the indexes one batch b of the loop nest reads (lines 212-213)
LeftIndexes(b, m, k) == {b * m * k + i * k + l : i \in 0..(m - 1), l \in 0..(k - 1)}

RightIndexes(b, k, n) == {b * k * n + l * n + j : l \in 0..(k - 1), j \in 0..(n - 1)}

\* resolve_module infers the shape of the MatMul node
InferMatMul ==
    /\ algebra.fn = "matmul"
    /\ algebra.out = <<>>
    /\ algebra' = [algebra EXCEPT
          !.out = [shape |-> infer_shape(OpMatMul, <<algebra.a, algebra.b>>, <<>>),
                   batch |-> 0, left |-> {}, right |-> {}],
          !.done = ~infer_shape(OpMatMul, <<algebra.a, algebra.b>>, <<>>).ok]
    /\ UNCHANGED pipelineVars
    /\ UNCHANGED kernel

\* one iteration of the loop over b of the emitted kernel (lines 199-222):
\* M and K are the last two dimensions of the left input, N the last of the
\* right one, batch_size is SIZE / (M * N) for the node's SIZE
RunMatMulBatch ==
    /\ algebra.fn = "matmul"
    /\ algebra.out # <<>>
    /\ ~algebra.done
    /\ IF algebra.out.batch < ElementCount(algebra.out.shape.dims)
                                 \div (algebra.a[Len(algebra.a) - 1].v * algebra.b[Len(algebra.b)].v)
       THEN algebra' = [algebra EXCEPT
               !.out.batch = @ + 1,
               !.out.left = LeftIndexes(algebra.out.batch, algebra.a[Len(algebra.a) - 1].v,
                                        algebra.a[Len(algebra.a)].v),
               !.out.right = RightIndexes(algebra.out.batch, algebra.a[Len(algebra.a)].v,
                                          algebra.b[Len(algebra.b)].v)]
       ELSE algebra' = [algebra EXCEPT !.done = TRUE]
    /\ UNCHANGED pipelineVars
    /\ UNCHANGED kernel

NextMatMul == InferMatMul \/ RunMatMulBatch

\* the largest dimension and the largest number of batch dimensions drawn
MatDim == 2

MatBatchRank == 1

MatBatches == UNION {[1..n -> {Static(v) : v \in 1..MatDim}] : n \in 0..MatBatchRank}

MatMatrices == [1..2 -> {Static(v) : v \in 1..MatDim}]

InitMatMul ==
    /\ manifest = [programs |-> <<>>, links |-> <<>>, sources |-> <<>>]
    /\ files = <<>>
    /\ algebra \in {[fn |-> "matmul", a |-> ba \o ma, b |-> bb \o mb, out |-> <<>>, done |-> FALSE] :
                       ba \in MatBatches, ma \in MatMatrices, bb \in MatBatches, mb \in MatMatrices}
    /\ kernel = NoKernel
    /\ InitDriver

SpecMatMul == InitMatMul /\ [][NextMatMul]_vars

----------------------------------------------------------------------------
(* Vocabulary of the properties *)

\* transitive closure of a relation given as a set of pairs
TransClosure(R) ==
    LET nodes == {r[1] : r \in R} \cup {r[2] : r \in R}
        RECURSIVE W(_, _)
        W(T, S) == IF S = {} THEN T
                   ELSE LET k == CHOOSE x \in S : TRUE
                        IN W(T \cup {ab \in nodes \X nodes : <<ab[1], k>> \in T /\ <<k, ab[2]>> \in T},
                             S \ {k})
    IN W(R, nodes)

HasCycle(R) == \E ab \in TransClosure(R) : ab[1] = ab[2]

\* the manifest links from a port of one declared program to a port of a
\* declared program, as pairs <<P, Q>>
ProgramLinks ==
    {<<manifest.links[i][1][1], manifest.links[i][2][1]>> : i \in
        {j \in 1..Len(manifest.links) :
            /\ HasDot(manifest.links[j][1]) /\ HasDot(manifest.links[j][2])
            /\ manifest.links[j][1][1] \in ProgIds(manifest)
            /\ manifest.links[j][2][1] \in ProgIds(manifest)}}

\* the edges of the analyzer's dependency graph as pairs of program ids
DepEdges == {<<depGraph.nodes[e.src], depGraph.nodes[e.dst]>> : e \in Range(depGraph.edges)}

Position(seq, x) == CHOOSE k \in 1..Len(seq) : seq[k] = x

AnalysisDone == pc # "start"

GraphEdgePairs(g) == {<<e.src, e.dst>> : e \in Range(g.edges)}

IsWorkspaceNode(n) == n.op.tag \notin {"Input", "Output"}

\* slots a node occupies from its offset on: parts tiles for Split, else one
SlotCount(n) == IF n.op.tag = "Split" THEN n.op.parts ELSE 1

\* the program whose linear IR is held in `linear`
LinearProg == IF pc \in {"emit", "failed"} THEN plan.execution_order[cur]
              ELSE plan.execution_order[cur - 1]

----------------------------------------------------------------------------
(* Properties *)

\* C1: when analyze_project succeeds, execution_order holds every declared
\* program exactly once, every link P.<port> -> Q.<port> between distinct
\* declared programs has P before Q, and the runtime emitter lists the
\* programs in exactly that order.
C1_ExecutionOrderRespectsLinks ==
    plan.ok =>
        /\ Len(plan.execution_order) = Cardinality(ProgIds(manifest))
        /\ \A id \in ProgIds(manifest) :
              Cardinality({k \in 1..Len(plan.execution_order) : plan.execution_order[k] = id}) = 1
        /\ \A pq \in ProgramLinks :
              pq[1] # pq[2] =>
                 Position(plan.execution_order, pq[1]) < Position(plan.execution_order, pq[2])
        /\ pc = "done" =>
              [k \in 1..Len(runtime.programs) |-> runtime.programs[k].id] = plan.execution_order

\* a finished compilation whose links force an order that is not the order
\* of the manifest's programs list
C1_Witness ==
    /\ pc = "done"
    /\ \E pq \in ProgramLinks :
          /\ pq[1] # pq[2]
          /\ \E i, j \in 1..Len(manifest.programs) :
                i > j /\ manifest.programs[i].id = pq[1] /\ manifest.programs[j].id = pq[2]

\* C3: if the program-to-program links form a directed cycle of any length
\* (a program linked to itself included), analyze_project returns an error.
C3_ProgramCycleIsError ==
    (AnalysisDone /\ HasCycle(ProgramLinks)) => (~plan.ok /\ pc = "failed")

\* C5: the dependency graph has an edge P -> Q exactly when some link goes
\* from a port of P to a port of Q; links from or to a resource add none.
C5_DepEdgesIffLinks ==
    plan.ok => DepEdges = ProgramLinks

\* C2: linearize returns every node of the resolved graph exactly once and
\* every edge u -> v of the resolved graph has u at a lower index than v.
C2_LinearOrderTopological ==
    linear.ok =>
        /\ Len(linear.nodes) = Len(resolved.graph.nodes)
        /\ \A i \in 1..Len(resolved.graph.nodes) :
              Cardinality({k \in 1..Len(linear.nodes) : linear.nodes[k].id = resolved.graph.nodes[i].id}) = 1
        /\ \A e \in Range(resolved.graph.edges) :
              Position([k \in 1..Len(linear.nodes) |-> linear.nodes[k].id], resolved.graph.nodes[e.src].id)
                < Position([k \in 1..Len(linear.nodes) |-> linear.nodes[k].id], resolved.graph.nodes[e.dst].id)

\* a linearized graph of at least three edges where the inliner created a
\* consumer before its producer
C2_Witness ==
    /\ linear.ok
    /\ Len(resolved.graph.edges) >= 3
    /\ \E e \in Range(raw.graph.edges) : e.src > e.dst

\* C4: a directed cycle in the flattened graph makes resolve_module fail, so
\* the program gets no resolved IR, no linear IR and no C file.
C4_CycleRejected ==
    HasCycle(GraphEdgePairs(raw.graph)) =>
        /\ pc \in {"resolve", "failed"}
        /\ pc = "failed" => failedAt = "resolve"
        /\ ~resolved.ok
        /\ ~linear.ok
        /\ <<CurProg, "c">> \notin written
        /\ <<CurProg, "h">> \notin written

\* resolve_module has rejected two nodes that consume each other's output
C4_Witness ==
    /\ pc = "failed"
    /\ failedAt = "resolve"
    /\ \E e1, e2 \in Range(raw.graph.edges) :
          e1.src # e1.dst /\ e2.src = e1.dst /\ e2.dst = e1.src

\* C6: after load_and_inline succeeds no two nodes of the raw IR have the
\* same id.
C6_RawIdsUnique ==
    \A i, j \in 1..Len(raw.graph.nodes) :
        i # j => raw.graph.nodes[i].id # raw.graph.nodes[j].id

\* C7: when the resolver succeeds, no dimension of any node's shape is the
\* wildcard "_" or the ellipsis "...".
C7_NoWildcardAfterResolve ==
    resolved.ok =>
        \A i \in 1..Len(resolved.graph.nodes) :
            \A d \in Range(resolved.graph.nodes[i].shape) :
                ~(d.t = "Variable" /\ d.s \in {"_", "..."})

\* C8: in a resolved IR a binary operator or MatMul has exactly two incoming
\* edges on different ports, a unary, Reshape, Transpose, ReduceSum, Split or
\* Output node exactly one, an Input or Constant node none.
C8_OneEdgePerInputPort ==
    resolved.ok =>
        \A i \in 1..Len(resolved.graph.nodes) :
            LET inc == EdgesIncoming(resolved.graph, i)
                tag == resolved.graph.nodes[i].op.tag
            IN /\ tag \in BinaryTags \cup {"MatMul"} =>
                     Len(inc) = 2 /\ inc[1].w.dst_port # inc[2].w.dst_port
               /\ tag \in UnaryTags \cup {"Reshape", "Transpose", "ReduceSum", "Split", "Output"} =>
                     Len(inc) = 1
               /\ tag \in {"Input", "Constant"} => Len(inc) = 0

\* C9: the workspace region of every node that is neither Input nor Output
\* ends within the workspace size reported for its program.
C9_OffsetsWithinWorkspace ==
    (linear.ok /\ LinearProg \in DOMAIN plan.workspace_info) =>
        \A k \in 1..Len(linear.nodes) :
            IsWorkspaceNode(linear.nodes[k]) =>
                /\ linear.nodes[k].offset + SlotCount(linear.nodes[k])
                      <= Len(plan.workspace_info[LinearProg])
                /\ pc = "done" =>
                      \A r \in 1..Len(runtime.programs) :
                          runtime.programs[r].id = LinearProg =>
                              linear.nodes[k].offset + SlotCount(linear.nodes[k])
                                  <= runtime.programs[r].workspace_size

\* C10: offsets come from a counter that never decreases along the
\* execution order, and the slot ranges of two distinct nodes that are
\* neither Input nor Output are disjoint.
C10_OffsetsDisjointMonotone ==
    linear.ok =>
        /\ \A i, j \in 1..Len(linear.nodes) :
              (i < j /\ linear.nodes[i].op.tag # "Input" /\ linear.nodes[j].op.tag # "Input") =>
                  linear.nodes[i].offset <= linear.nodes[j].offset
        /\ \A i, j \in 1..Len(linear.nodes) :
              (i # j /\ IsWorkspaceNode(linear.nodes[i]) /\ IsWorkspaceNode(linear.nodes[j])) =>
                  \/ linear.nodes[i].offset + SlotCount(linear.nodes[i]) <= linear.nodes[j].offset
                  \/ linear.nodes[j].offset + SlotCount(linear.nodes[j]) <= linear.nodes[i].offset

\* a Split of two tiles has been placed before another workspace node
C10_Witness ==
    /\ linear.ok
    /\ \E i, j \in 1..Len(linear.nodes) :
          /\ i < j
          /\ linear.nodes[i].op.tag = "Split"
          /\ linear.nodes[i].op.parts = 2
          /\ IsWorkspaceNode(linear.nodes[j])

\* the raw IRs load_and_inline can return for the current program, one per
\* iteration order of the hash maps mapping.inputs and mapping.outputs
RawOutcomes ==
    LET r == inline_recursive_graph(files, CurGraph, <<>>, EmptyGraph, 0) IN
    IF r.status # "ok" THEN {}
    ELSE {Bridge(CurGraph, r, ins, outs) :
             ins \in Perms(DOMAIN r.mapping.inputs), outs \in Perms(DOMAIN r.mapping.outputs)}

\* C11: a second compilation of the same manifest and files, whatever order
\* its hash maps iterate in, computes the same execution order and the same
\* raw IR as this one.
C11_CompilationDeterministic ==
    /\ plan.ok =>
          \A keys \in Perms(ProgIds(manifest)) :
              analyze_project(manifest, files, keys).plan.execution_order = plan.execution_order
    /\ pc = "resolve" => \A other \in RawOutcomes : other = raw

\* C12: two nodes of one program's raw IR that have different ids get
\* different C identifiers from sanitize_id.
C12_SanitizeInjective ==
    \A i, j \in 1..Len(raw.graph.nodes) :
        raw.graph.nodes[i].id # raw.graph.nodes[j].id =>
            sanitize_id(IdChars(raw.graph.nodes[i].id)) # sanitize_id(IdChars(raw.graph.nodes[j].id))

\* C13: when unify(A, B) and unify(B, A) both succeed they return the same
\* shape.
C13_UnifyCommutes ==
    (algebra.fn = "unify" /\ algebra.done /\ algebra.out.ok /\ unify(algebra.b, algebra.a).ok) =>
        algebra.out.dims = unify(algebra.b, algebra.a).dims

\* C14: unify(A, A) succeeds and returns A unchanged, also when A holds
\* "_" or "...".
C14_UnifyIdempotent ==
    (algebra.fn = "unify" /\ algebra.done /\ algebra.a = algebra.b) =>
        (algebra.out.ok /\ algebra.out.dims = algebra.a)

\* a shape holding an ellipsis and a wildcard has been unified with itself
C14_Witness ==
    /\ algebra.fn = "unify"
    /\ algebra.done
    /\ algebra.a = algebra.b
    /\ algebra.a = <<DimSymbol("..."), DimSymbol("_")>>

\* C15: for every dimension expression A, simplify(A + 0) = A,
\* simplify(A * 1) = A and simplify(A * 0) = 0, the constant on either side.
C15_SimplifyIdentities ==
    (algebra.fn = "simplify" /\ algebra.done) =>
        /\ algebra.out.add0 = <<algebra.a[1], algebra.a[1]>>
        /\ algebra.out.mul1 = <<algebra.a[1], algebra.a[1]>>
        /\ algebra.out.mul0 = <<DimValue(0), DimValue(0)>>

\* C15 amended: simplify(A + 0) and simplify(A * 1) equal simplify(A), which
\* is A itself when A is a value or a symbol, and simplify(A * 0) is 0, the
\* constant on either side.
C15_SimplifyIdentitiesUpToSimplify ==
    (algebra.fn = "simplify" /\ algebra.done) =>
        /\ algebra.out.add0 = <<simplify(algebra.a[1]), simplify(algebra.a[1])>>
        /\ algebra.out.mul1 = <<simplify(algebra.a[1]), simplify(algebra.a[1])>>
        /\ algebra.out.mul0 = <<DimValue(0), DimValue(0)>>
        /\ algebra.a[1].k \in {"Value", "Symbol"} => simplify(algebra.a[1]) = algebra.a[1]

\* the identities have been applied to a nested expression that simplify
\* itself rewrites
C15_Witness ==
    /\ algebra.fn = "simplify"
    /\ algebra.done
    /\ algebra.a[1] = DimAdd(DimSymbol("N"), DimValue(0))
    /\ algebra.out.add0[1] = DimSymbol("N")

\* the i-th dimension of shape s aligned at its last dimension in n places,
\* a missing dimension counting as 1
AlignedDim(s, n, i) == IF i <= n - Len(s) THEN 1 ELSE s[i - (n - Len(s))].v

MaxInt(x, y) == IF x >= y THEN x ELSE y

BroadcastCompatible(a, b) ==
    \A i \in 1..MaxInt(Len(a), Len(b)) :
        LET x == AlignedDim(a, MaxInt(Len(a), Len(b)), i)
            y == AlignedDim(b, MaxInt(Len(a), Len(b)), i)
        IN x = y \/ x = 1 \/ y = 1

\* C16: for shapes A, B of concrete non-negative dimensions,
\* broadcast_shapes(A, B) succeeds iff, aligned at the last dimension (a
\* missing dimension counts as 1), every pair is equal or contains a 1; on
\* success each result dimension is max(a, b) of the pair.
C16_BroadcastRule ==
    (algebra.fn = "broadcast" /\ algebra.done) =>
        /\ algebra.out.ok <=> BroadcastCompatible(algebra.a, algebra.b)
        /\ algebra.out.ok =>
               /\ Len(algebra.out.dims) = MaxInt(Len(algebra.a), Len(algebra.b))
               /\ \A i \in 1..Len(algebra.out.dims) :
                      algebra.out.dims[i] =
                          Static(MaxInt(AlignedDim(algebra.a, Len(algebra.out.dims), i),
                                        AlignedDim(algebra.b, Len(algebra.out.dims), i)))

\* C16 amended: success is as claimed; each result dimension is max(a, b)
\* of the pair when both are positive and 0 when one of them is 0.
C16_BroadcastRuleZero ==
    (algebra.fn = "broadcast" /\ algebra.done) =>
        /\ algebra.out.ok <=> BroadcastCompatible(algebra.a, algebra.b)
        /\ algebra.out.ok =>
               /\ Len(algebra.out.dims) = MaxInt(Len(algebra.a), Len(algebra.b))
               /\ \A i \in 1..Len(algebra.out.dims) :
                      LET x == AlignedDim(algebra.a, Len(algebra.out.dims), i)
                          y == AlignedDim(algebra.b, Len(algebra.out.dims), i)
                      IN algebra.out.dims[i] =
                             IF x = 0 \/ y = 0 THEN Static(0) ELSE Static(MaxInt(x, y))

\* shapes of different rank have been broadcast, a 1 stretched to a larger
\* dimension and a missing dimension filled in
C16_Witness ==
    /\ algebra.fn = "broadcast"
    /\ algebra.done
    /\ algebra.a = <<Static(1)>>
    /\ algebra.b = <<Static(2), Static(3)>>
    /\ algebra.out = ShapeOk(<<Static(2), Static(3)>>)

\* the pairs <<f, g>> of graph files where f has a node that instantiates g
SubgraphRefs(fs) ==
    {fg \in (DOMAIN fs) \X (DOMAIN fs) :
        \E i \in 1..Len(fs[fg[1]].nodes) :
            fs[fg[1]].nodes[i].kind = "sub" /\ fs[fg[1]].nodes[i].subgraph = fg[2]}

\* the current program's graph reaches a sub-graph that transitively refers
\* to itself
ReachesReferenceCycle ==
    \E f \in DOMAIN files :
        /\ <<f, f>> \in TransClosure(SubgraphRefs(files))
        /\ <<ProgDef(manifest, CurProg).path, f>> \in TransClosure(SubgraphRefs(files))

\* C17: when a sub-graph refers to itself, directly or through other
\* sub-graphs, inlining terminates and returns an error: it never recurses
\* without end.
C17_ReferenceCycleIsError ==
    (plan.ok /\ pc # "inline" /\ ReachesReferenceCycle) =>
        (pc = "failed" /\ failedAt = "inline")

\* C18: if compiling a program fails at inlining, shape resolution or
\* linearization, the driver stops and at that point no <prog>.c or <prog>.h
\* has been written for any program of the project, and runtime.c is not
\* written.
C18_FailureWritesNothing ==
    (pc = "failed" /\ failedAt \in {"inline", "inline-overflow", "resolve", "linearize"}) =>
        written = {}

\* the manifest link at position i copies a program's output port into a
\* resource
IsCopyBackLink(i) ==
    /\ manifest.links[i][2][1] = "sources"
    /\ manifest.links[i][1][1] \in ProgIds(manifest)

\* the positions of the copy-back links among the first n manifest links
CopyBackCount(n) == Cardinality({i \in 1..n : IsCopyBackLink(i)})

\* C19: the copy-back list of the runtime emitter has exactly one entry for
\* each manifest link from a program port P.<port> to sources.<r>, in link
\* order, naming r, P and <port>; links from a resource and links to a
\* program port produce no entry.
C19_CopyBackList ==
    pc = "done" =>
        /\ Len(runtime.sync_back) = CopyBackCount(Len(manifest.links))
        /\ \A i \in 1..Len(manifest.links) :
               IsCopyBackLink(i) =>
                   LET e == runtime.sync_back[CopyBackCount(i)]
                   IN /\ e.res_id = Chars(manifest.links[i][2][2])
                      /\ e.src_prog = Chars(manifest.links[i][1][1])
                      /\ e.src_port = Chars(manifest.links[i][1][2])

\* the runtime has been emitted for a manifest with a link from the
\* resource to a program, which has no entry, followed by a copy-back link
C19_Witness ==
    /\ pc = "done"
    /\ Len(manifest.links) = 2
    /\ manifest.links[1][1][1] = "sources"
    /\ manifest.links[1][2][1] \in ProgIds(manifest)
    /\ IsCopyBackLink(2)
    /\ Len(runtime.sync_back) = 1

\* C20: among programs that the program-to-program links leave unordered,
\* the execution order follows the order of the manifest's programs list.
C20_TiesInManifestOrder ==
    plan.ok =>
        \A i, j \in 1..Len(manifest.programs) :
            (/\ i < j
             /\ <<manifest.programs[i].id, manifest.programs[j].id>> \notin TransClosure(ProgramLinks)
             /\ <<manifest.programs[j].id, manifest.programs[i].id>> \notin TransClosure(ProgramLinks))
            => Position(plan.execution_order, manifest.programs[i].id)
                   < Position(plan.execution_order, manifest.programs[j].id)

\* the interface of the declared program id, read from its graph file
DeclaredInterface(id) == LoadInterface(files[ProgDef(manifest, id).path])

\* the address names a declared resource or a port of a declared program:
\* an output port for a link's source, an input port for its destination
SourceAddrExists(a) ==
    /\ HasDot(a)
    /\ \/ a[1] = "sources" /\ a[2] \in DOMAIN manifest.sources
       \/ a[1] \in ProgIds(manifest) /\ a[2] \in DOMAIN DeclaredInterface(a[1]).outputs

DestAddrExists(a) ==
    /\ HasDot(a)
    /\ \/ a[1] = "sources" /\ a[2] \in DOMAIN manifest.sources
       \/ a[1] \in ProgIds(manifest) /\ a[2] \in DOMAIN DeclaredInterface(a[1]).inputs

\* C21: if a manifest link has a source or destination address that names
\* nothing that exists, analyze_project returns an error; no such link is
\* silently skipped.
C21_UnknownAddressIsError ==
    plan.ok =>
        \A i \in 1..Len(manifest.links) :
            SourceAddrExists(manifest.links[i][1]) /\ DestAddrExists(manifest.links[i][2])

\* C22: merging consecutive elementwise nodes of identical shape into one
\* loop nest changes no computed value: after the fused loops have run,
\* every element of every buffer equals the value it has when each node
\* runs in its own complete loop.
C22_FusionPreservesValues ==
    kernel.phase = "done" =>
        kernel.buf = RunGroups(kernel.nodes, kernel.init, GroupNodesAlone(kernel.nodes, 1), 1)

\* the buffer elements <<buffer, index>> that iteration i0 of the outermost
\* loop of a group writes
IterationWrites(nodes, group, i0) ==
    IF group.kind = "reduction"
    THEN {<<group.operations[1],
            i0 * default_strides(get_node_by_id(nodes, group.operations[1]).dims)[1]>>}
    ELSE {generate_body_expr(nodes, get_node_by_id(nodes, group.operations[j]),
                             InnerIndexes(group.shape, i0)[k]).target :
              j \in 1..Len(group.operations), k \in 1..Len(InnerIndexes(group.shape, i0))}

\* the buffer elements that iteration i0 reads
IterationReads(nodes, group, i0) ==
    IF group.kind = "reduction"
    THEN {<<get_node_by_id(nodes, group.operations[1]).input,
            generate_index_expr(get_node_by_id(nodes, get_node_by_id(nodes, group.operations[1]).input), 2,
                                IF get_node_by_id(nodes, group.operations[1]).axis = 0
                                THEN <<r, i0>> ELSE <<i0, r>>)>> :
              r \in 0..(get_node_by_id(nodes, get_node_by_id(nodes, group.operations[1]).input).dims
                            [get_node_by_id(nodes, group.operations[1]).axis + 1] - 1)}
         \cup IterationWrites(nodes, group, i0)
    ELSE {generate_body_expr(nodes, get_node_by_id(nodes, group.operations[j]),
                             InnerIndexes(group.shape, i0)[k]).source :
              j \in 1..Len(group.operations), k \in 1..Len(InnerIndexes(group.shape, i0))}

\* C23: in every emitted loop that is marked parallel, no iteration reads or
\* writes a buffer element that a different iteration of the same loop
\* writes; a reduction accumulates only into the element of its own
\* iteration.
C23_ParallelIterationsIndependent ==
    \A g \in 1..Len(kernel.groups) :
        kernel.groups[g].parallel =>
            \A i, j \in 0..(kernel.groups[g].outer - 1) :
                i # j =>
                    IterationWrites(kernel.nodes, kernel.groups[g], i)
                        \cap (IterationReads(kernel.nodes, kernel.groups[g], j)
                              \cup IterationWrites(kernel.nodes, kernel.groups[g], j)) = {}

\* C24: shape inference never runs more passes than the bound of its
\* loop, and when it has stopped before the bound one more pass over the
\* nodes changes no shape
C24_StopsAtFixedPoint ==
    algebra.fn = "infer" =>
        /\ algebra.out.passes <= MaxPasses
        /\ (algebra.done /\ algebra.out.passes < MaxPasses) =>
              RunPass(algebra.a, [known |-> algebra.out.known, changed |-> FALSE], 1)
                  = [known |-> algebra.out.known, changed |-> FALSE]

\* inference stopped before the bound after passes that resolved shapes
\* one after the other
C24_Witness ==
    /\ algebra.fn = "infer"
    /\ algebra.done
    /\ algebra.out.passes >= 3
    /\ algebra.out.passes < MaxPasses
    /\ \A i \in 1..Len(algebra.a) : algebra.a[i].id \in DOMAIN algebra.out.known

\* permutation is a bijection on [0, r): r entries, each below r, none
\* repeated
IsBijection(permutation, r) ==
    /\ Len(permutation) = r
    /\ \A i \in 1..r : permutation[i] < r
    /\ \A i, j \in 1..r : permutation[i] = permutation[j] => i = j

\* C25: infer_shape of Transpose returns the input dimensions permuted
\* (result dimension i is input dimension permutation[i]) exactly when the
\* permutation is a bijection on the input's axes, and an error for every
\* other permutation
C25_TransposeNeedsBijection ==
    (algebra.fn = "transpose" /\ algebra.done) =>
        IF IsBijection(algebra.a, Len(algebra.b))
        THEN algebra.out = ShapeOk([i \in 1..Len(algebra.a) |-> algebra.b[algebra.a[i] + 1]])
        ELSE ~algebra.out.ok

\* the nodes of graph file path that a link address with this head names
NodesNamed(path, head) ==
    {i \in 1..Len(files[path].nodes) : files[path].nodes[i].id = head}

\* the primitive ports, as <<node id, port>>, that consume the input `port`
\* of the graph file `path` instantiated under `prefix`, at any depth of
\* nesting, read off the graph files
RECURSIVE InputConsumers(_, _, _, _)
InputConsumers(path, prefix, port, depth) ==
    IF depth > MaxDepth + 1 \/ path \notin DOMAIN files THEN {}
    ELSE UNION {
           IF files[path].links[k][1] # <<<<"inputs">>, port>> \/ ~HasDot(files[path].links[k][2])
           THEN {}
           ELSE UNION {
                  IF files[path].nodes[i].kind = "op"
                  THEN {<<FullId(prefix, files[path].nodes[i].id), files[path].links[k][2][2]>>}
                  ELSE InputConsumers(files[path].nodes[i].subgraph,
                                      FullId(prefix, files[path].nodes[i].id),
                                      files[path].links[k][2][2], depth + 1)
                  : i \in NodesNamed(path, files[path].links[k][2][1])}
           : k \in 1..Len(files[path].links)}

\* the link's destination is an input port of a sub-graph reference of the
\* root graph and its source is a root input or a primitive node of the root
FeedsSubgraphInput(link) ==
    /\ HasDot(link[1]) /\ HasDot(link[2])
    /\ \E i \in NodesNamed("main", link[2][1]) : CurGraph.nodes[i].kind = "sub"
    /\ \/ link[1][1] = <<"inputs">>
       \/ \E i \in NodesNamed("main", link[1][1]) : CurGraph.nodes[i].kind = "op"

\* the id and port of the raw node a link's source stands for
LinkSourceId(link) ==
    IF link[1][1] = <<"inputs">> THEN <<"inputs." \o link[1][2]>> ELSE link[1][1]

LinkSourcePort(link) == IF link[1][1] = <<"inputs">> THEN "output" ELSE link[1][2]

\* the consumers of the sub-graph input a root link ends in
LinkConsumers(link) ==
    UNION {InputConsumers(CurGraph.nodes[i].subgraph, link[2][1], link[2][2], 1)
              : i \in NodesNamed("main", link[2][1])}

\* the raw edges from the link's source into the instance the link ends in
EdgesIntoInstance(link) ==
    {e \in 1..Len(raw.graph.edges) :
        /\ raw.graph.nodes[raw.graph.edges[e].src].id = LinkSourceId(link)
        /\ raw.graph.edges[e].w.src_port = LinkSourcePort(link)
        /\ Len(raw.graph.nodes[raw.graph.edges[e].dst].id) > Len(link[2][1])
        /\ SubSeq(raw.graph.nodes[raw.graph.edges[e].dst].id, 1, Len(link[2][1])) = link[2][1]}

\* C26: for a link that ends in an input port of a sub-graph reference, the
\* raw IR holds exactly one edge from the link's source to each primitive
\* port that consumes that input inside the child, at any depth, labelled
\* with the consumer's port, and no other edge from that source into the
\* instance
C26_SubgraphInputFanOut ==
    (pc = "resolve" /\ "main" \in DOMAIN files) =>
        \A k \in 1..Len(CurGraph.links) :
            FeedsSubgraphInput(CurGraph.links[k]) =>
                /\ \A c \in LinkConsumers(CurGraph.links[k]) :
                      Cardinality({e \in EdgesIntoInstance(CurGraph.links[k]) :
                                      /\ raw.graph.nodes[raw.graph.edges[e].dst].id = c[1]
                                      /\ raw.graph.edges[e].w.dst_port = c[2]}) = 1
                /\ \A e \in EdgesIntoInstance(CurGraph.links[k]) :
                      <<raw.graph.nodes[raw.graph.edges[e].dst].id, raw.graph.edges[e].w.dst_port>>
                          \in LinkConsumers(CurGraph.links[k])

\* a primitive node of the root feeds the input of an instance of wrap.json,
\* whose input is consumed two levels down by both ports of an Add
C26_Witness ==
    /\ pc = "resolve"
    /\ "main" \in DOMAIN files
    /\ \E k \in 1..Len(CurGraph.links) :
          /\ FeedsSubgraphInput(CurGraph.links[k])
          /\ CurGraph.links[k][1][1] # <<"inputs">>
          /\ LinkConsumers(CurGraph.links[k]) = {<<<<"s", "n", "n">>, "x">>, <<<<"s", "n", "n">>, "y">>}
          /\ Cardinality(EdgesIntoInstance(CurGraph.links[k])) = 2

\* the program the driver compiled last, whose linear IR is still at hand
LastProg == plan.execution_order[Len(plan.execution_order)]

\* C27: the arguments of a program's call line up with the parameters of
\* its function: as many arguments as parameters, the k-th input argument
\* is the buffer linked to the port of the k-th input parameter, and the
\* k-th output argument is the buffer of the k-th output parameter's port
C27_CallArgsMatchParameters ==
    (pc = "done" /\ LastProg = "P") =>
        /\ Len(runtime.programs[Len(runtime.programs)].call_args)
              = Len(get_function_args(linear).inputs) + Len(get_function_args(linear).outputs)
        /\ \A k \in 1..Len(linear.inputs) :
              <<runtime.programs[Len(runtime.programs)].call_args[k]>>
                  = CallArgInput(plan.links, LastProg, linear.inputs[k].name, 1)
        /\ \A k \in 1..Len(linear.outputs) :
              runtime.programs[Len(runtime.programs)].call_args[Len(linear.inputs) + k]
                  = BufArg(LastProg, linear.outputs[k].name)

\* the outputs the graph declares that are the destination of a link
DeclaredLinkedOutputs(g) ==
    {g.outputs[i].name : i \in 1..Len(g.outputs)}
    \cap {g.links[k][2][2] : k \in {j \in 1..Len(g.links) :
                                      HasDot(g.links[j][2]) /\ g.links[j][2][1] = <<"outputs">>}}

\* the raw nodes synthesized for the output n
OutputNodesOf(n) ==
    {i \in 1..Len(raw.graph.nodes) : raw.graph.nodes[i].id = <<"outputs." \o n>>}

\* C28: once the root graph is inlined, every output it declares that is
\* the destination of a link has exactly one outputs.<n> node with exactly
\* one incoming edge in the raw IR, and once the module is resolved the
\* resolved output list has exactly one port for it
C28_LinkedOutputHasNode ==
    (pc \in {"resolve", "linearize"}) =>
        \A n \in DeclaredLinkedOutputs(CurGraph) :
            /\ Cardinality(OutputNodesOf(n)) = 1
            /\ \A i \in OutputNodesOf(n) :
                  Cardinality({e \in 1..Len(raw.graph.edges) : raw.graph.edges[e].dst = i}) = 1
            /\ pc = "linearize" =>
                  Cardinality({k \in 1..Len(resolved.outputs) : resolved.outputs[k].name = n}) = 1

\* C29: in every iteration of the MatMul kernel over inputs whose inner
\* dimensions agree and whose batch prefixes broadcast, every index read
\* from the left input is below its element count and every index read
\* from the right input is below its element count
C29_MatMulReadsInBounds ==
    (algebra.fn = "matmul" /\ algebra.out # <<>>) =>
        /\ \A idx \in algebra.out.left : idx < ElementCount(algebra.a)
        /\ \A idx \in algebra.out.right : idx < ElementCount(algebra.b)

\* C30: for every output port the resolver produced for the program, the
\* shape the analyzer recorded in the program interface equals the shape
\* the resolver computed for the node that feeds the output
C30_InterfaceShapeIsResolvedShape ==
    pc = "linearize" =>
        \A k \in 1..Len(resolved.outputs) :
            resolved.outputs[k].name \in DOMAIN plan.programs[CurProg].outputs =>
                plan.programs[CurProg].outputs[resolved.outputs[k].name] = resolved.outputs[k].shape

====
